---- MODULE Spec2Model ----
(***************************************************************************)
(* gauss: host-side orchestration of GPU compute work (lib/gpu_task.rs,    *)
(* lib/allocation_strategy.rs, lib/pipeline.rs, lib/vulkan/command_buffer_util.rs *)
(* lib/lib.rs).                                                            *)
(*                                                                         *)
(* The Vulkan driver and the gpu_allocator crate are modelled by the sets  *)
(* of objects that are live behind the FFI boundary (record vk).  Handles  *)
(* are fresh numbers; 0 is the null handle.  Option<T> is a sequence of    *)
(* length 0 (None) or 1 (Some).  Every call that can return an error in    *)
(* the source takes its outcome as an input of the action.                 *)
(***************************************************************************)
EXTENDS Integers, Sequences, FiniteSets, TLC

VARIABLES
    current_tensor_id,  \* ComputeManager.current_tensor_id (AtomicU32)
    tensors,            \* the Tensor values the caller holds, in creation order
    program,            \* Option<Program> the caller holds
    pipeline,           \* Option<Pipeline> the caller holds
    vk,                 \* driver / gpu_allocator state (live objects)
    builder,            \* Option<GPUTaskInProcess> the caller holds
    task,               \* Option<GPUTask> the caller holds after finalize
    result,             \* what the last finalize returned
    phase,              \* position of the caller in the call protocol
    ncalls,             \* number of op_* calls made on the current builder
    history,            \* log of the op_* calls that recorded into the current task
    last_call,          \* the arguments of the last of them
    acquired,           \* log of what the last new_task call was given and acquired
    sync,               \* Option<GPUSyncPrimitive> the caller holds after exec_task
    last_exec,          \* log of the last exec_task call
    last_await,         \* log of the last await_task call
    teardown,           \* log of the release calls of the teardowns run so far
    manager,            \* the Arc<ComputeManager>: its handles and whether it was dropped
    allocator,          \* ComputeManager.allocator: the RwLock around the Allocator
    busy,               \* the threads that are inside an allocator operation
    threads             \* position and locals of each thread that shares the manager

vars == <<current_tensor_id, tensors, program, pipeline, vk, builder, task, result,
          phase, ncalls, history, last_call, acquired, sync, last_exec, last_await,
          teardown, manager, allocator, busy, threads>>

\* what the threads sharing the manager change besides the manager and the driver
thread_vars == <<allocator, busy, threads>>

\* what the single caller holds
caller_vars == <<program, pipeline, builder, task, result, phase, ncalls, history,
                 last_call, acquired, sync, last_exec, last_await, teardown, manager>>

------------------------------------------------------------------------------
(* Bounds of the model *)

MaxTensors == 2     \* create_tensor calls
MaxCalls == 2       \* op_* calls chained on one builder
MaxExecs == 2       \* exec_task calls on one task
MaxAwaits == 2      \* await_task calls on one handle
NumThreads == 2     \* threads that share one Arc<ComputeManager>

\* a Vec<&Tensor> argument names at most two tensors
ListLengths == {0, 1, 2}

------------------------------------------------------------------------------
(* Values *)

None == <<>>
Some(x) == <<x>>
IsSome(o) == Len(o) = 1
IsNone(o) == Len(o) = 0
Unwrap(o) == o[1]

\* u32: a 32-bit unsigned value is held as its two 16-bit halves, value =
\* hi * 2^16 + lo (TLC's integers are narrower than 2^32)
HALF == 65536
U32(hi, lo) == [hi |-> hi, lo |-> lo]
\* the u32 of a number below 2^31
FromNat(n) == U32(n \div HALF, n % HALF)
\* u32::MAX
U32_MAX == U32(HALF - 1, HALF - 1)
\* a <= b on u32
U32LessEq(a, b) == a.hi < b.hi \/ (a.hi = b.hi /\ a.lo <= b.lo)

\* u32 addition of 1 that carries out of the 32 bits instead of wrapping (mutation)
wrapping_add_one_without_wrap(v) ==
    IF v.lo + 1 < HALF THEN U32(v.hi, v.lo + 1) ELSE U32(v.hi + 1, 0)

\* u32::wrapping_add(v, 1): the sum modulo 2^32
wrapping_add_one(v) ==
    IF v.lo + 1 < HALF THEN U32(v.hi, v.lo + 1) ELSE U32((v.hi + 1) % HALF, 0)

\* Allocation::default(), the placeholder std::mem::take leaves behind
NullAllocation == [id |-> 0, size |-> 0]

\* enum AllocationError (the kinds allocate_buffer returns)
AllocationError == {"BufferCreationFailure", "MemoryAllocationError", "MemoryBindFailure"}

\* enum GPUTaskRecordingError
GPUTaskRecordingError ==
    {"CommandBufferAllocationFailure", "CommandBufferRecordingStartFailure",
     "BufferAllocationFailure", "DescriptorSetAllocationFailure", "UnknownError"}

\* array![..] data of n elements handed to create_tensor
DataOfLen(n) == [i \in 1..n |-> i]

\* Vec<&Tensor>: lists of references to the caller's tensors
TensorLists == UNION {[1..n -> 1..Len(tensors)] : n \in ListLengths}
Refs(list) == [i \in 1..Len(list) |-> tensors[list[i]]]

\* HashMap::insert: the new value replaces the one stored under the key
Insert(map, key, value) == (key :> value) @@ map
\* HashMap::get
Get(map, key) == IF key \in DOMAIN map THEN Some(map[key]) ELSE None
EmptyMap == <<>>

\* recorded commands (all fields present in every command so that streams compare)
Command(cmd, a, b, size, stages, access) ==
    [cmd |-> cmd, a |-> a, b |-> b, size |-> size, stages |-> stages, access |-> access]
NoStages == <<"", "">>
NoAccess == <<{}, {}>>
\* cmd_bind_pipeline(cb, COMPUTE, pipeline)
CmdBindPipeline(p) == Command("bind_pipeline", p, 0, 0, NoStages, NoAccess)
\* cmd_bind_descriptor_sets(cb, COMPUTE, layout, 0, [set], [])
CmdBindDescriptorSets(layout, set) == Command("bind_descriptor_sets", layout, set, 0, NoStages, NoAccess)
\* cmd_copy_buffer(cb, src, dst, [BufferCopy {0, 0, size}])
CmdCopyBuffer(src, dst, size) == Command("copy_buffer", src, dst, size, NoStages, NoAccess)
\* cmd_pipeline_barrier(cb, src_stage, dst_stage, .., [MemoryBarrier {src_access, dst_access}], ..)
CmdPipelineBarrier(src_stage, dst_stage, src_access, dst_access) ==
    Command("pipeline_barrier", 0, 0, 0, <<src_stage, dst_stage>>, <<src_access, dst_access>>)
\* cmd_dispatch(cb, x, y, z)
CmdDispatch(x, y, z) == Command("dispatch", x, y, z, NoStages, NoAccess)

------------------------------------------------------------------------------
(* lib/allocation_strategy.rs *)

\* the driver and gpu_allocator calls of allocate_buffer, each of which can fail
AllocateFaults == {"create_buffer", "allocate", "bind_buffer_memory"}

\* allocate_buffer reporting a failed bind as a failed sub-allocation (mutation)
allocate_buffer_bind_reported_as_allocation(d, size, usage, location, failing) ==
    IF failing = "create_buffer"
    THEN [res |-> "BufferCreationFailure", buffer |-> None, d |-> d,
          calls |-> <<"create_buffer">>]
    ELSE
      LET h == d.next_handle
          d1 == [d EXCEPT !.buffers = (h :> [size |-> size, usage |-> usage]) @@ @,
                          !.next_handle = h + 1]
      IN IF failing = "allocate"
         THEN [res |-> "MemoryAllocationError", buffer |-> None, d |-> d1,
               calls |-> <<"create_buffer", "allocate">>]
         ELSE
           LET d2 == [d1 EXCEPT !.allocations = @ \cup {h},
                                !.memory = (h :> <<>>) @@ @,
                                !.mapped = IF location = "CpuToGpu" THEN @ \cup {h} ELSE @]
           IN IF failing = "bind_buffer_memory"
              THEN [res |-> "MemoryAllocationError", buffer |-> None, d |-> d2,
                    calls |-> <<"create_buffer", "allocate", "bind_buffer_memory">>]
              ELSE [res |-> "Ok",
                    buffer |-> Some([buffer |-> h, allocation |-> [id |-> h, size |-> size]]),
                    d |-> d2,
                    calls |-> <<"create_buffer", "allocate", "bind_buffer_memory">>]

\* Allocator::allocate_buffer.  failing is the call that returns an error, or
\* "none"; calls are the driver and gpu_allocator calls made.
\* [res, buffer, d, calls]
allocate_buffer(d, size, usage, location, failing) ==
    IF failing = "create_buffer"
    THEN [res |-> "BufferCreationFailure", buffer |-> None, d |-> d,
          calls |-> <<"create_buffer">>]
    ELSE
      LET h == d.next_handle
          d1 == [d EXCEPT !.buffers = (h :> [size |-> size, usage |-> usage]) @@ @,
                          !.next_handle = h + 1]
      IN IF failing = "allocate"
         THEN [res |-> "MemoryAllocationError", buffer |-> None, d |-> d1,
               calls |-> <<"create_buffer", "allocate">>]
         ELSE
           LET d2 == [d1 EXCEPT !.allocations = @ \cup {h},
                                !.memory = (h :> <<>>) @@ @,
                                !.mapped = IF location = "CpuToGpu" THEN @ \cup {h} ELSE @]
           IN IF failing = "bind_buffer_memory"
              THEN [res |-> "MemoryBindFailure", buffer |-> None, d |-> d2,
                    calls |-> <<"create_buffer", "allocate", "bind_buffer_memory">>]
              ELSE [res |-> "Ok",
                    buffer |-> Some([buffer |-> h, allocation |-> [id |-> h, size |-> size]]),
                    d |-> d2,
                    calls |-> <<"create_buffer", "allocate", "bind_buffer_memory">>]

------------------------------------------------------------------------------
(* lib/gpu_task.rs: ComputeManager::new_task *)

\* The call that fails in the k-th allocate_buffer call of a new_task call under fault
Outcome(fault, k) ==
    IF fault.step = "buffer" /\ fault.n = k THEN fault.err ELSE "none"

\* Failed without storing the kind (mutation)
Failed_without_errno(kind) == [errno |-> None, task |-> None]

\* an early `return GPUTaskInProcess { errno: Some(kind), task: None }`
Failed(kind) == [errno |-> Some(kind), task |-> None]

GpuUsage == {"STORAGE_BUFFER", "TRANSFER_SRC", "TRANSFER_DST"}

\* The state of a running new_task call is a record s: d the driver state, errno
\* the kind of the early return taken (None while running), calls the number of
\* allocate_buffer calls made, got the buffers of the triad being allocated, and
\* the locals buffer_backing, descriptor_pool, descriptor_set, command_buffer;
\* steps logs the acquisition steps taken and allocs what each allocate_buffer
\* call was asked, returned and left live.
\* Every step leaves s as it is once an early return was taken.
Entered(d) ==
    [d |-> d, errno |-> None, calls |-> 0, got |-> <<>>, buffer_backing |-> EmptyMap,
     descriptor_pool |-> 0, descriptor_set |-> 0, command_buffer |-> 0,
     steps |-> <<>>, allocs |-> <<>>]

\* `match self.allocator.write()` at the head of a loop iteration
AcquireAllocator(s) ==
    IF IsSome(s.errno) THEN s
    ELSE IF s.d.poisoned
    THEN [s EXCEPT !.errno = Some("BufferAllocationFailure"),
                   !.steps = Append(@, "allocator.write")]
    ELSE [s EXCEPT !.got = <<>>, !.steps = Append(@, "allocator.write")]

\* one `match allocator_actual.allocate_buffer(..)` of the loop body
AllocateOne(s, size, usage, location, fault) ==
    IF IsSome(s.errno) THEN s
    ELSE LET r == allocate_buffer(s.d, size, usage, location, Outcome(fault, s.calls + 1))
             call == [failing |-> Outcome(fault, s.calls + 1),
                      size |-> size,
                      res |-> r.res,
                      buffer |-> r.buffer,
                      calls |-> r.calls,
                      buffers |-> DOMAIN r.d.buffers \ DOMAIN s.d.buffers,
                      allocations |-> r.d.allocations \ s.d.allocations]
         IN IF r.res = "Ok"
            THEN [s EXCEPT !.d = r.d, !.calls = @ + 1, !.got = Append(@, Unwrap(r.buffer)),
                           !.steps = Append(@, "allocate_buffer"),
                           !.allocs = Append(@, call)]
            ELSE [s EXCEPT !.d = r.d, !.calls = @ + 1,
                           !.errno = Some("BufferAllocationFailure"),
                           !.steps = Append(@, "allocate_buffer"),
                           !.allocs = Append(@, call)]

\* AllocateReadback ignoring the readback_enabled flag (mutation)
AllocateReadback_always(s, binding, fault) ==
    AllocateOne(s, Len(binding.local_data) * 4, {"TRANSFER_DST"}, "CpuToGpu", fault)

\* `let readback_buffer = if binding.readback_enabled { Some(..) } else { None }`
AllocateReadback(s, binding, fault) ==
    IF binding.readback_enabled
    THEN AllocateOne(s, Len(binding.local_data) * 4, {"TRANSFER_DST"}, "CpuToGpu", fault)
    ELSE s

\* InsertBacking storing the device-local buffer as the staging buffer (mutation)
InsertBacking_staging_is_gpu(s, binding) ==
    IF IsSome(s.errno) THEN s
    ELSE [s EXCEPT !.buffer_backing =
              Insert(@, binding.id,
                     [gpu_buffer |-> s.got[1],
                      staging_buffer |-> s.got[1],
                      readback_buffer |-> IF Len(s.got) = 3 THEN Some(s.got[3]) ELSE None])]

\* buffer_backing.insert(binding.id, backing) at the end of one loop iteration
InsertBacking(s, binding) ==
    IF IsSome(s.errno) THEN s
    ELSE [s EXCEPT !.buffer_backing =
              Insert(@, binding.id,
                     [gpu_buffer |-> s.got[1],
                      staging_buffer |-> s.got[2],
                      readback_buffer |-> IF Len(s.got) = 3 THEN Some(s.got[3]) ELSE None])]

\* one iteration of the loop `for binding in bindings`
AllocateBacking(s, binding, fault) ==
    InsertBacking(
      AllocateReadback(
        AllocateOne(
          AllocateOne(AcquireAllocator(s), Len(binding.local_data) * 4, GpuUsage,
                      "GpuOnly", fault),
          Len(binding.local_data) * 4, {"TRANSFER_SRC"}, "CpuToGpu", fault),
        binding, fault),
      binding)

\* the loop `for binding in bindings` from binding i on
RECURSIVE AllocateBackings(_, _, _, _)
AllocateBackings(bindings, i, s, fault) ==
    IF i > Len(bindings) \/ IsSome(s.errno) THEN s
    ELSE AllocateBackings(bindings, i + 1, AllocateBacking(s, bindings[i], fault), fault)

\* DescriptorPoolCreateInfo.max_sets of the pool new_task creates
MAX_SETS == 10

\* CreateDescriptorPool reporting its failure as a buffer allocation failure
\* (mutation)
CreateDescriptorPool_reports_buffer_failure(s, fault) ==
    IF IsSome(s.errno) THEN s
    ELSE IF fault.step = "descriptor_pool"
    THEN [s EXCEPT !.errno = Some("BufferAllocationFailure"),
                   !.steps = Append(@, "create_descriptor_pool")]
    ELSE [s EXCEPT !.descriptor_pool = s.d.next_handle,
                   !.steps = Append(@, "create_descriptor_pool"),
                   !.d.descriptor_pools = (s.d.next_handle :> MAX_SETS) @@ @,
                   !.d.next_handle = @ + 1]

\* create_descriptor_pool
CreateDescriptorPool(s, fault) ==
    IF IsSome(s.errno) THEN s
    ELSE IF fault.step = "descriptor_pool"
    THEN [s EXCEPT !.errno = Some("DescriptorSetAllocationFailure"),
                   !.steps = Append(@, "create_descriptor_pool")]
    ELSE [s EXCEPT !.descriptor_pool = s.d.next_handle,
                   !.steps = Append(@, "create_descriptor_pool"),
                   !.d.descriptor_pools = (s.d.next_handle :> MAX_SETS) @@ @,
                   !.d.next_handle = @ + 1]

\* DescriptorWrite pointing the descriptor at the staging buffer (mutation)
DescriptorWrite_staging(buffer_backing, binding) ==
    [buffer |-> buffer_backing[binding.id].staging_buffer.buffer,
     offset |-> 0,
     range |-> Len(binding.local_data) * 4]

\* DescriptorBufferInfo written for one binding
DescriptorWrite(buffer_backing, binding) ==
    [buffer |-> buffer_backing[binding.id].gpu_buffer.buffer,
     offset |-> 0,
     range |-> Len(binding.local_data) * 4]

\* allocate_descriptor_sets from the pool just created, then update_descriptor_sets
AllocateDescriptorSet(s, pl, bindings, fault) ==
    IF IsSome(s.errno) THEN s
    ELSE IF fault.step = "descriptor_set"
    THEN [s EXCEPT !.errno = Some("DescriptorSetAllocationFailure"),
                   !.steps = Append(@, "allocate_descriptor_sets")]
    ELSE [s EXCEPT !.descriptor_set = s.d.next_handle,
                   !.steps = Append(@, "allocate_descriptor_sets"),
                   !.d.descriptor_sets =
                       (s.d.next_handle :>
                          [pool |-> s.descriptor_pool,
                           layout |-> pl.descriptor_set_layout,
                           writes |-> [i \in 1..Len(bindings) |->
                                          DescriptorWrite(s.buffer_backing, bindings[i])]])
                       @@ @,
                   !.d.next_handle = @ + 1]

\* command_buffer_util::allocate_command_buffer
AllocateCommandBuffer(s, fault) ==
    IF IsSome(s.errno) THEN s
    ELSE IF fault.step = "command_buffer"
    THEN [s EXCEPT !.errno = Some("CommandBufferAllocationFailure"),
                   !.steps = Append(@, "allocate_command_buffer")]
    ELSE [s EXCEPT !.command_buffer = s.d.next_handle,
                   !.steps = Append(@, "allocate_command_buffer"),
                   !.d.command_buffers =
                       (s.d.next_handle :> [state |-> "initial", cmds |-> <<>>]) @@ @,
                   !.d.next_handle = @ + 1]

\* BeginRecording that never begins the recording (mutation)
BeginRecording_skipped(s, fault) ==
    IF IsSome(s.errno) THEN s
    ELSE IF fault.step = "begin"
    THEN [s EXCEPT !.errno = Some("CommandBufferRecordingStartFailure"),
                   !.steps = Append(@, "begin_command_buffer")]
    ELSE [s EXCEPT !.steps = Append(@, "begin_command_buffer")]

\* command_buffer_util::begin_command_buffer_recording
BeginRecording(s, fault) ==
    IF IsSome(s.errno) THEN s
    ELSE IF fault.step = "begin"
    THEN [s EXCEPT !.errno = Some("CommandBufferRecordingStartFailure"),
                   !.steps = Append(@, "begin_command_buffer")]
    ELSE [s EXCEPT !.d.command_buffers[s.command_buffer].state = "recording",
                   !.steps = Append(@, "begin_command_buffer")]

\* Record putting the command at the head of the stream (mutation)
Record_at_head(d, command_buffer, cmd) ==
    IF d.command_buffers[command_buffer].state = "recording"
    THEN [d EXCEPT !.command_buffers[command_buffer].cmds = <<cmd>> \o @]
    ELSE [d EXCEPT !.misuse = @ \cup {<<"record", command_buffer>>}]

\* vkCmd*: the driver appends the command to the stream of a command buffer that is
\* in the recording state; recording into any other command buffer is invalid
Record(d, command_buffer, cmd) ==
    IF d.command_buffers[command_buffer].state = "recording"
    THEN [d EXCEPT !.command_buffers[command_buffer].cmds = Append(@, cmd)]
    ELSE [d EXCEPT !.misuse = @ \cup {<<"record", command_buffer>>}]

\* the two commands new_task records once recording has begun
BindCommands(pl, descriptor_set) ==
    <<CmdBindPipeline(pl.pipeline), CmdBindDescriptorSets(pl.pipeline_layout, descriptor_set)>>

\* cmd_bind_pipeline and cmd_bind_descriptor_sets
RecordBinds(s, pl) ==
    IF IsSome(s.errno) THEN s
    ELSE [s EXCEPT !.d = Record(Record(@, s.command_buffer,
                                       BindCommands(pl, s.descriptor_set)[1]),
                                s.command_buffer, BindCommands(pl, s.descriptor_set)[2])]

\* the GPUTaskInProcess new_task returns
Returned(s) ==
    [d |-> s.d,
     steps |-> s.steps,
     allocs |-> s.allocs,
     builder |->
        IF IsSome(s.errno) THEN Failed(Unwrap(s.errno))
        ELSE [errno |-> None,
              task |-> Some([command_buffer |-> s.command_buffer,
                             buffers |-> s.buffer_backing,
                             descriptor_set |-> s.descriptor_set,
                             parent_descriptor_pool |-> s.descriptor_pool])]]

\* new_task from the end of its loop `for binding in bindings` on
AfterBackings(s, pl, bindings, fault) ==
    Returned(
      RecordBinds(
        BeginRecording(
          AllocateCommandBuffer(
            AllocateDescriptorSet(CreateDescriptorPool(s, fault), pl, bindings, fault),
            fault),
          fault),
        pl))

\* new_task(pipeline, bindings) on driver state d: [d, builder] and the two logs
new_task(d, pl, bindings, fault) ==
    AfterBackings(AllocateBackings(bindings, 1, Entered(d), fault), pl, bindings, fault)

------------------------------------------------------------------------------
(* lib/gpu_task.rs: impl GPUTaskInProcess *)


\* the entry check of every op_* method
EarlyReturn(b) == IsNone(b.task) \/ IsSome(b.errno)

\* ptr::copy_from(data.as_ptr(), data.len() * 4) into the mapped memory of an
\* allocation: the bytes are written from the start of the mapping on, whatever
\* the size of the allocation; writing past its end is invalid
HostWrite(d, allocation, data) ==
    IF Len(data) * 4 > allocation.size
    THEN [d EXCEPT !.memory[allocation.id] = data,
                   !.misuse = @ \cup {<<"host_write_out_of_bounds", allocation.id>>}]
    ELSE [d EXCEPT !.memory[allocation.id] = data]

\* LocalSyncDeviceEach that records the copy without first copying the tensor's
\* data into the mapped staging buffer (mutation)
RECURSIVE LocalSyncDeviceEach_without_memcpy(_, _, _, _)
LocalSyncDeviceEach_without_memcpy(d, t, tensor_list, i) ==
    IF i > Len(tensor_list) THEN d
    ELSE
      LET tensor == tensor_list[i]
          found == Get(t.buffers, tensor.id)
      IN IF IsNone(found) THEN LocalSyncDeviceEach_without_memcpy(d, t, tensor_list, i + 1)
         ELSE
           LET backing == Unwrap(found)
               recorded == Record(d, t.command_buffer,
                                  CmdCopyBuffer(backing.staging_buffer.buffer,
                                                backing.gpu_buffer.buffer,
                                                Len(tensor.local_data) * 4))
           IN LocalSyncDeviceEach_without_memcpy(recorded, t, tensor_list, i + 1)

\* LocalSyncDeviceEach copying the tensor's data into the memory of the
\* device-local buffer instead of the staging buffer (mutation)
RECURSIVE LocalSyncDeviceEach_into_device_memory(_, _, _, _)
LocalSyncDeviceEach_into_device_memory(d, t, tensor_list, i) ==
    IF i > Len(tensor_list) THEN d
    ELSE
      LET tensor == tensor_list[i]
          found == Get(t.buffers, tensor.id)
      IN IF IsNone(found)
         THEN LocalSyncDeviceEach_into_device_memory(d, t, tensor_list, i + 1)
         ELSE
           LET backing == Unwrap(found)
               copied == [d EXCEPT !.memory[backing.gpu_buffer.allocation.id] =
                                       tensor.local_data]
               recorded == Record(copied, t.command_buffer,
                                  CmdCopyBuffer(backing.staging_buffer.buffer,
                                                backing.gpu_buffer.buffer,
                                                Len(tensor.local_data) * 4))
           IN LocalSyncDeviceEach_into_device_memory(recorded, t, tensor_list, i + 1)

\* the closure of op_local_sync_device applied to tensors[i..]
RECURSIVE LocalSyncDeviceEach(_, _, _, _)
LocalSyncDeviceEach(d, t, tensor_list, i) ==
    IF i > Len(tensor_list) THEN d
    ELSE
      LET tensor == tensor_list[i]
          found == Get(t.buffers, tensor.id)
      IN IF IsNone(found) THEN LocalSyncDeviceEach(d, t, tensor_list, i + 1)
         ELSE
           LET backing == Unwrap(found)
               copied == HostWrite(d, backing.staging_buffer.allocation, tensor.local_data)
               recorded == Record(copied, t.command_buffer,
                                  CmdCopyBuffer(backing.staging_buffer.buffer,
                                                backing.gpu_buffer.buffer,
                                                Len(tensor.local_data) * 4))
           IN LocalSyncDeviceEach(recorded, t, tensor_list, i + 1)

TransferToComputeBarrier ==
    CmdPipelineBarrier("TRANSFER", "COMPUTE_SHADER",
                       {"MEMORY_WRITE"}, {"MEMORY_WRITE", "MEMORY_READ"})

ComputeToTransferBarrier ==
    CmdPipelineBarrier("COMPUTE_SHADER", "TRANSFER", {"MEMORY_WRITE"}, {"MEMORY_READ"})

\* op_local_sync_device recording its barrier before its copies (mutation)
op_local_sync_device_barrier_first(d, b, tensor_list) ==
    IF EarlyReturn(b) THEN d
    ELSE LET t == Unwrap(b.task)
         IN LocalSyncDeviceEach(Record(d, t.command_buffer, TransferToComputeBarrier),
                                t, tensor_list, 1)

\* GPUTaskInProcess::op_local_sync_device: the driver state after the call
\* (the builder itself is returned as it is)
op_local_sync_device(d, b, tensor_list) ==
    IF EarlyReturn(b) THEN d
    ELSE LET t == Unwrap(b.task)
         IN Record(LocalSyncDeviceEach(d, t, tensor_list, 1), t.command_buffer,
                   TransferToComputeBarrier)

\* op_pipeline_dispatch recording one work group whatever it is given (mutation)
op_pipeline_dispatch_one_group(d, b, work_group) ==
    IF EarlyReturn(b) THEN d
    ELSE Record(d, Unwrap(b.task).command_buffer, CmdDispatch(1, 1, 1))

\* GPUTaskInProcess::op_pipeline_dispatch
op_pipeline_dispatch(d, b, work_group) ==
    IF EarlyReturn(b) THEN d
    ELSE Record(d, Unwrap(b.task).command_buffer,
                CmdDispatch(work_group.x, work_group.y, work_group.z))

\* DeviceSyncLocalEach giving up at the first tensor without a readback buffer
\* (mutation)
RECURSIVE DeviceSyncLocalEach_stops_without_readback(_, _, _, _)
DeviceSyncLocalEach_stops_without_readback(d, t, tensor_list, i) ==
    IF i > Len(tensor_list) THEN d
    ELSE
      LET tensor == tensor_list[i]
          found == Get(t.buffers, tensor.id)
      IN IF IsNone(found)
         THEN DeviceSyncLocalEach_stops_without_readback(d, t, tensor_list, i + 1)
         ELSE IF IsNone(Unwrap(found).readback_buffer) THEN d
         ELSE
           LET backing == Unwrap(found)
           IN DeviceSyncLocalEach_stops_without_readback(
                Record(d, t.command_buffer,
                       CmdCopyBuffer(backing.gpu_buffer.buffer,
                                     Unwrap(backing.readback_buffer).buffer,
                                     Len(tensor.local_data) * 4)),
                t, tensor_list, i + 1)

\* DeviceSyncLocalEach giving up at the first tensor without a backing (mutation)
RECURSIVE DeviceSyncLocalEach_stops_without_backing(_, _, _, _)
DeviceSyncLocalEach_stops_without_backing(d, t, tensor_list, i) ==
    IF i > Len(tensor_list) THEN d
    ELSE
      LET tensor == tensor_list[i]
          found == Get(t.buffers, tensor.id)
      IN IF IsNone(found) THEN d
         ELSE IF IsNone(Unwrap(found).readback_buffer)
         THEN DeviceSyncLocalEach_stops_without_backing(d, t, tensor_list, i + 1)
         ELSE
           LET backing == Unwrap(found)
           IN DeviceSyncLocalEach_stops_without_backing(
                Record(d, t.command_buffer,
                       CmdCopyBuffer(backing.gpu_buffer.buffer,
                                     Unwrap(backing.readback_buffer).buffer,
                                     Len(tensor.local_data) * 4)),
                t, tensor_list, i + 1)

\* the closure of op_device_sync_local applied to tensors[i..]
RECURSIVE DeviceSyncLocalEach(_, _, _, _)
DeviceSyncLocalEach(d, t, tensor_list, i) ==
    IF i > Len(tensor_list) THEN d
    ELSE
      LET tensor == tensor_list[i]
          found == Get(t.buffers, tensor.id)
      IN IF IsNone(found) THEN DeviceSyncLocalEach(d, t, tensor_list, i + 1)
         ELSE IF IsNone(Unwrap(found).readback_buffer)
         THEN DeviceSyncLocalEach(d, t, tensor_list, i + 1)
         ELSE
           LET backing == Unwrap(found)
           IN DeviceSyncLocalEach(
                Record(d, t.command_buffer,
                       CmdCopyBuffer(backing.gpu_buffer.buffer,
                                     Unwrap(backing.readback_buffer).buffer,
                                     Len(tensor.local_data) * 4)),
                t, tensor_list, i + 1)

\* op_device_sync_local recording its barrier after its copies (mutation)
op_device_sync_local_barrier_last(d, b, tensor_list) ==
    IF EarlyReturn(b) THEN d
    ELSE LET t == Unwrap(b.task)
         IN Record(DeviceSyncLocalEach(d, t, tensor_list, 1), t.command_buffer,
                   ComputeToTransferBarrier)

\* GPUTaskInProcess::op_device_sync_local
op_device_sync_local(d, b, tensor_list) ==
    IF EarlyReturn(b) THEN d
    ELSE LET t == Unwrap(b.task)
         IN DeviceSyncLocalEach(Record(d, t.command_buffer, ComputeToTransferBarrier),
                                t, tensor_list, 1)

\* finalize that does not look at the stored error (mutation)
finalize_ignores_errno(b) ==
    IF IsSome(b.task) THEN [ok |-> Some(Unwrap(b.task)), err |-> None]
    ELSE [ok |-> None, err |-> Some("UnknownError")]

\* GPUTaskInProcess::finalize: Result<GPUTask, GPUTaskRecordingError>
finalize(b) ==
    IF IsSome(b.errno) THEN [ok |-> None, err |-> Some(Unwrap(b.errno))]
    ELSE IF IsSome(b.task) THEN [ok |-> Some(Unwrap(b.task)), err |-> None]
    ELSE [ok |-> None, err |-> Some("UnknownError")]

------------------------------------------------------------------------------
(* lib/gpu_task.rs: impl Drop for GPUTask *)

Without(f, k) == [x \in DOMAIN f \ {k} |-> f[x]]

\* gpu_allocator free(allocation): a null allocation is accepted and ignored;
\* an allocation that is not live is a double free
free(d, allocation) ==
    IF allocation = NullAllocation THEN d
    ELSE IF allocation.id \in d.allocations
    THEN [d EXCEPT !.allocations = @ \ {allocation.id},
                   !.memory = Without(@, allocation.id),
                   !.mapped = @ \ {allocation.id}]
    ELSE [d EXCEPT !.misuse = @ \cup {<<"free", allocation.id>>}]

\* vkDestroyBuffer
destroy_buffer(d, buffer) ==
    IF buffer \in DOMAIN d.buffers THEN [d EXCEPT !.buffers = Without(@, buffer)]
    ELSE [d EXCEPT !.misuse = @ \cup {<<"destroy_buffer", buffer>>}]

\* vkFreeCommandBuffers
free_command_buffers(d, command_buffer) ==
    IF command_buffer \in DOMAIN d.command_buffers
    THEN [d EXCEPT !.command_buffers = Without(@, command_buffer)]
    ELSE [d EXCEPT !.misuse = @ \cup {<<"free_command_buffers", command_buffer>>}]

\* vkResetDescriptorPool: every set allocated from the pool is returned to it
reset_descriptor_pool(d, pool) ==
    IF pool \in DOMAIN d.descriptor_pools
    THEN [d EXCEPT !.descriptor_sets =
                       [x \in {y \in DOMAIN @ : @[y].pool # pool} |-> @[x]]]
    ELSE [d EXCEPT !.misuse = @ \cup {<<"reset_descriptor_pool", pool>>}]

\* vkDestroyDescriptorPool
destroy_descriptor_pool(d, pool) ==
    IF pool \in DOMAIN d.descriptor_pools
    THEN [d EXCEPT !.descriptor_pools = Without(@, pool)]
    ELSE [d EXCEPT !.misuse = @ \cup {<<"destroy_descriptor_pool", pool>>}]

\* one release call made by a teardown: the driver or allocator function and the
\* handle (for free: the id of the allocation, 0 for the empty placeholder)
Call(call, arg) == [call |-> call, arg |-> arg]

\* FreeBacking that reads the allocations without taking them out of the backing
\* (mutation)
FreeBacking_without_take(d, buffer) ==
    LET d1 == destroy_buffer(free(d, buffer.gpu_buffer.allocation), buffer.gpu_buffer.buffer)
        d2 == destroy_buffer(free(d1, buffer.staging_buffer.allocation),
                             buffer.staging_buffer.buffer)
        calls == <<Call("free", buffer.gpu_buffer.allocation.id),
                   Call("destroy_buffer", buffer.gpu_buffer.buffer),
                   Call("free", buffer.staging_buffer.allocation.id),
                   Call("destroy_buffer", buffer.staging_buffer.buffer)>>
    IN IF IsSome(buffer.readback_buffer)
       THEN [d |-> destroy_buffer(free(d2, Unwrap(buffer.readback_buffer).allocation),
                                  Unwrap(buffer.readback_buffer).buffer),
             buffer |-> buffer,
             calls |-> calls \o <<Call("free", Unwrap(buffer.readback_buffer).allocation.id),
                                  Call("destroy_buffer",
                                       Unwrap(buffer.readback_buffer).buffer)>>]
       ELSE [d |-> d2, buffer |-> buffer, calls |-> calls]

\* the closure of `self.buffers.iter_mut().for_each` applied to one backing:
\* [d, buffer, calls], buffer being the backing as the closure leaves it (each
\* allocation is taken with std::mem::take, which leaves Allocation::default())
\* and calls the release calls it made, in order
FreeBacking(d, buffer) ==
    LET gpu_alloc == buffer.gpu_buffer.allocation
        b1 == [buffer EXCEPT !.gpu_buffer.allocation = NullAllocation]
    IN IF d.poisoned THEN [d |-> d, buffer |-> b1, calls |-> <<>>]
       ELSE
         LET d1 == destroy_buffer(free(d, gpu_alloc), b1.gpu_buffer.buffer)
             stage_alloc == b1.staging_buffer.allocation
             b2 == [b1 EXCEPT !.staging_buffer.allocation = NullAllocation]
             d2 == destroy_buffer(free(d1, stage_alloc), b2.staging_buffer.buffer)
             calls == <<Call("free", gpu_alloc.id),
                        Call("destroy_buffer", b1.gpu_buffer.buffer),
                        Call("free", stage_alloc.id),
                        Call("destroy_buffer", b2.staging_buffer.buffer)>>
         IN IF IsSome(b2.readback_buffer)
            THEN LET readback_alloc == Unwrap(b2.readback_buffer).allocation
                     b3 == [b2 EXCEPT !.readback_buffer[1].allocation = NullAllocation]
                 IN [d |-> destroy_buffer(free(d2, readback_alloc),
                                          Unwrap(b3.readback_buffer).buffer),
                     buffer |-> b3,
                     calls |-> calls \o <<Call("free", readback_alloc.id),
                                          Call("destroy_buffer",
                                               Unwrap(b3.readback_buffer).buffer)>>]
            ELSE [d |-> d2, buffer |-> b2, calls |-> calls]

\* the iteration over the entries of self.buffers still to visit
RECURSIVE FreeBackings(_, _, _)
FreeBackings(d, buffers, keys) ==
    IF keys = {} THEN [d |-> d, buffers |-> buffers, calls |-> <<>>]
    ELSE LET k == CHOOSE x \in keys : \A y \in keys : U32LessEq(x, y)
             r == FreeBacking(d, buffers[k])
             rest == FreeBackings(r.d, [buffers EXCEPT ![k] = r.buffer], keys \ {k})
         IN [rest EXCEPT !.calls = r.calls \o @]

\* Drop::drop up to its loop over self.buffers: the command buffer is freed and
\* the descriptor pool reset and destroyed
BeforeBackings(d, t) ==
    destroy_descriptor_pool(
      reset_descriptor_pool(free_command_buffers(d, t.command_buffer),
                            t.parent_descriptor_pool),
      t.parent_descriptor_pool)

\* the release calls of Drop::drop up to its loop
BeforeBackingsCalls(t) ==
    <<Call("free_command_buffers", t.command_buffer),
      Call("reset_descriptor_pool", t.parent_descriptor_pool),
      Call("destroy_descriptor_pool", t.parent_descriptor_pool)>>

\* drop_task releasing the backings before the command buffer and the descriptor
\* pool (mutation)
drop_task_backings_first(d, t) ==
    LET r == FreeBackings(d, t.buffers, DOMAIN t.buffers)
    IN [d |-> BeforeBackings(r.d, t), task |-> [t EXCEPT !.buffers = r.buffers],
        calls |-> r.calls \o BeforeBackingsCalls(t)]

\* Drop::drop(&mut GPUTask): [d, task, calls], task being the value drop leaves
drop_task(d, t) ==
    LET r == FreeBackings(BeforeBackings(d, t), t.buffers, DOMAIN t.buffers)
    IN [d |-> r.d, task |-> [t EXCEPT !.buffers = r.buffers],
        calls |-> BeforeBackingsCalls(t) \o r.calls]

------------------------------------------------------------------------------
(* lib/vulkan/command_buffer_util.rs, lib/gpu_task.rs: exec_task, await_task *)

\* what a failing call of end_and_submit_command_buffer can be
SubmitFaults == {"end_command_buffer", "create_fence", "queue_submit"}

\* vkDestroyFence; destroying the fence of a submission still in the queue, or a
\* fence that is not live, is invalid
destroy_fence(d, fence) ==
    IF fence \notin DOMAIN d.fences
    THEN [d EXCEPT !.misuse = @ \cup {<<"destroy_fence", fence>>}]
    ELSE IF \E i \in 1..Len(d.queue) : d.queue[i].fence = fence
    THEN [d EXCEPT !.fences = Without(@, fence),
                   !.misuse = @ \cup {<<"destroy_fence_in_use", fence>>}]
    ELSE [d EXCEPT !.fences = Without(@, fence)]

\* vkEndCommandBuffer: recording -> executable, or invalid when the call fails
end_command_buffer(d, command_buffer, ok) ==
    IF command_buffer \notin DOMAIN d.command_buffers
       \/ d.command_buffers[command_buffer].state # "recording"
    THEN [d EXCEPT !.misuse = @ \cup {<<"end_command_buffer", command_buffer>>}]
    ELSE [d EXCEPT !.command_buffers[command_buffer].state =
                       IF ok THEN "executable" ELSE "invalid"]

\* vkQueueSubmit of one command buffer with a fence to signal.  Submitting a
\* command buffer that is not executable (still pending, or invalid) is invalid;
\* a driver that does not return an error for it queues the submission as any
\* other (the driver returning an error is the failing call of the caller)
queue_submit(d, command_buffer, fence) ==
    IF command_buffer \notin DOMAIN d.command_buffers
    THEN [d EXCEPT !.misuse = @ \cup {<<"queue_submit", command_buffer>>}]
    ELSE IF d.command_buffers[command_buffer].state # "executable"
    THEN [d EXCEPT !.misuse = @ \cup {<<"queue_submit", command_buffer>>},
                   !.queue = Append(@, [command_buffer |-> command_buffer,
                                        fence |-> fence])]
    ELSE [d EXCEPT !.command_buffers[command_buffer].state = "pending",
                   !.queue = Append(@, [command_buffer |-> command_buffer,
                                        fence |-> fence])]

\* end_and_submit_command_buffer returning the fence although the submission
\* failed (mutation)
end_and_submit_command_buffer_ignores_submit_error(d, command_buffer, fault) ==
    IF fault = "end_command_buffer"
    THEN [d |-> end_command_buffer(d, command_buffer, FALSE), fence |-> None]
    ELSE
      LET d1 == end_command_buffer(d, command_buffer, TRUE)
      IN IF fault = "create_fence" THEN [d |-> d1, fence |-> None]
         ELSE
           LET fence == d1.next_handle
               d2 == [d1 EXCEPT !.fences = (fence :> [signaled |-> FALSE]) @@ @,
                                !.next_handle = @ + 1]
           IN IF fault = "queue_submit"
              THEN [d |-> d2, fence |-> Some(fence)]
              ELSE [d |-> queue_submit(d2, command_buffer, fence), fence |-> Some(fence)]

\* end_and_submit_command_buffer: [d, fence], fence being Ok(fence) or None for Err
end_and_submit_command_buffer(d, command_buffer, fault) ==
    IF fault = "end_command_buffer"
    THEN [d |-> end_command_buffer(d, command_buffer, FALSE), fence |-> None]
    ELSE
      LET d1 == end_command_buffer(d, command_buffer, TRUE)
      IN IF fault = "create_fence" THEN [d |-> d1, fence |-> None]
         ELSE
           LET fence == d1.next_handle
               d2 == [d1 EXCEPT !.fences = (fence :> [signaled |-> FALSE]) @@ @,
                                !.next_handle = @ + 1]
           IN IF fault = "queue_submit"
              THEN [d |-> destroy_fence(d2, fence), fence |-> None]
              ELSE [d |-> queue_submit(d2, command_buffer, fence), fence |-> Some(fence)]

\* ComputeManager::exec_task: [d, sync], sync being the Option<GPUSyncPrimitive>
exec_task(d, t, fault) ==
    LET r == end_and_submit_command_buffer(d, t.command_buffer, fault)
    IN IF IsNone(r.fence) THEN [d |-> r.d, sync |-> None]
       ELSE [d |-> r.d, sync |-> Some([fence |-> Unwrap(r.fence), parent |-> t])]

\* n elements read from a memory region; elements never written read as 0
ReadMemory(contents, n) ==
    [i \in 1..n |-> IF i <= Len(contents) THEN contents[i] ELSE 0]

\* a memory region after its first n elements were overwritten from src
WriteMemory(contents, src, n) ==
    [i \in 1..(IF Len(contents) > n THEN Len(contents) ELSE n) |->
        IF i <= n THEN ReadMemory(src, n)[i] ELSE contents[i]]

\* The compute shaders a program is compiled from: "square" is the shader of
\* main (out_a[index] = in_a[index] * in_a[index], binding 0 to binding 1);
\* "identity" stores every element of every bound buffer back as it read it.
Shaders == {"identity", "square"}

\* what one invocation stores for the element x it loaded
ShaderFn(shader, x) == IF shader = "square" THEN x * x ELSE x

\* the <<source binding, destination binding>> pairs of a shader run with a
\* descriptor set of n_bindings written bindings (bindings count from 1 here)
ShaderTransfers(shader, n_bindings) ==
    IF shader = "square" THEN << <<1, 2>> >>
    ELSE [k \in 1..n_bindings |-> <<k, k>>]

\* a memory region after invocations 1..n stored ShaderFn of the elements of src
Invoke(shader, contents, src, n) ==
    [i \in 1..(IF Len(contents) > n THEN Len(contents) ELSE n) |->
        IF i <= n THEN ShaderFn(shader, ReadMemory(src, n)[i]) ELSE contents[i]]

\* the n invocations of a dispatch running the transfers pairs[k..] of a shader
\* over the buffers of the bound descriptor set.  An access to a binding that
\* was never written, to a buffer that is not live or beyond the range of the
\* descriptor is invalid; the invocations inside every range still run.
RECURSIVE RunShader(_, _, _, _, _, _)
RunShader(d, shader, writes, n, pairs, k) ==
    IF k > Len(pairs) THEN d
    ELSE
      LET from == pairs[k][1]
          to == pairs[k][2]
      IN IF from > Len(writes) \/ to > Len(writes)
         THEN RunShader([d EXCEPT !.misuse = @ \cup {<<"shader_unbound_descriptor", to>>}],
                        shader, writes, n, pairs, k + 1)
         ELSE IF writes[from].buffer \notin DOMAIN d.memory
                 \/ writes[to].buffer \notin DOMAIN d.memory
         THEN RunShader([d EXCEPT !.misuse = @ \cup {<<"shader_access", writes[to].buffer>>}],
                        shader, writes, n, pairs, k + 1)
         ELSE
           LET in_range == {m \in 0..n : m * 4 <= writes[from].range
                                         /\ m * 4 <= writes[to].range}
               count == CHOOSE m \in in_range : \A x \in in_range : x <= m
               d1 == IF count < n
                     THEN [d EXCEPT !.misuse = @ \cup {<<"shader_out_of_range",
                                                         writes[to].buffer>>}]
                     ELSE d
           IN RunShader([d1 EXCEPT !.memory[writes[to].buffer] =
                                       Invoke(shader, @, d.memory[writes[from].buffer], count)],
                        shader, writes, n, pairs, k + 1)

\* the handle bound last by a command of kind cmd before position i (0: none)
BoundBefore(cmds, i, cmd) ==
    LET ks == {k \in 1..(i - 1) : cmds[k].cmd = cmd}
    IN IF ks = {} THEN Command("", 0, 0, 0, NoStages, NoAccess)
       ELSE cmds[CHOOSE k \in ks : \A x \in ks : x <= k]

\* vkCmdDispatch executed: x * y * z invocations (local size 1) of the shader of
\* the bound pipeline over the bound descriptor set
ExecuteDispatch(d, cmds, i) ==
    LET pl == BoundBefore(cmds, i, "bind_pipeline").a
        set == BoundBefore(cmds, i, "bind_descriptor_sets").b
    IN IF pl \notin DOMAIN d.shaders \/ set \notin DOMAIN d.descriptor_sets
       THEN [d EXCEPT !.misuse = @ \cup {<<"execute_dispatch", pl>>}]
       ELSE RunShader(d, d.shaders[pl], d.descriptor_sets[set].writes,
                      cmds[i].a * cmds[i].b * cmds[i].size,
                      ShaderTransfers(d.shaders[pl], Len(d.descriptor_sets[set].writes)), 1)

\* a copy region lies inside its source and its destination buffer
CopyInRange(d, c) ==
    /\ c.a \in DOMAIN d.buffers => c.size <= d.buffers[c.a].size
    /\ c.b \in DOMAIN d.buffers => c.size <= d.buffers[c.b].size

\* the device executing the commands cmds[i..] of a submitted command buffer: a
\* copy moves size bytes (size / 4 elements) between the memory bound to two
\* buffers, a dispatch runs the shader, barriers and binds move nothing
RECURSIVE ExecuteCommands(_, _, _)
ExecuteCommands(d, cmds, i) ==
    IF i > Len(cmds) THEN d
    ELSE IF cmds[i].cmd = "dispatch"
    THEN ExecuteCommands(ExecuteDispatch(d, cmds, i), cmds, i + 1)
    ELSE IF cmds[i].cmd # "copy_buffer" THEN ExecuteCommands(d, cmds, i + 1)
    ELSE IF cmds[i].a \notin DOMAIN d.memory \/ cmds[i].b \notin DOMAIN d.memory
    THEN ExecuteCommands([d EXCEPT !.misuse = @ \cup {<<"execute_copy", cmds[i].b>>}],
                         cmds, i + 1)
    ELSE ExecuteCommands(
           [d EXCEPT !.memory[cmds[i].b] =
                         WriteMemory(@, d.memory[cmds[i].a], cmds[i].size \div 4),
                     !.misuse = IF CopyInRange(d, cmds[i]) THEN @
                                ELSE @ \cup {<<"copy_out_of_range", cmds[i].b>>}],
           cmds, i + 1)

\* the device completing the oldest submission of the queue: it runs the command
\* buffer, returns it to the executable state and signals the fence
complete_submission(d) ==
    LET sub == Head(d.queue)
        d1 == [d EXCEPT !.queue = Tail(@)]
        d2 == IF sub.command_buffer \in DOMAIN d1.command_buffers
              THEN [ExecuteCommands(d1, d1.command_buffers[sub.command_buffer].cmds, 1)
                       EXCEPT !.command_buffers[sub.command_buffer].state = "executable"]
              ELSE [d1 EXCEPT !.misuse = @ \cup {<<"execute", sub.command_buffer>>}]
    IN IF sub.fence \in DOMAIN d2.fences
       THEN [d2 EXCEPT !.fences[sub.fence].signaled = TRUE]
       ELSE d2

\* what wait_for_fences(&[fence], true, u64::MAX) can return
WaitResults == {"SUCCESS", "ERROR_DEVICE_LOST"}

\* whether the fence is signaled (a destroyed fence is not)
Signaled(d, fence) == fence \in DOMAIN d.fences /\ d.fences[fence].signaled

\* vkWaitForFences: waiting on a fence that is not live is invalid
wait_for_fences(d, fence) ==
    IF fence \in DOMAIN d.fences THEN d
    ELSE [d EXCEPT !.misuse = @ \cup {<<"wait_for_fences", fence>>}]

\* one entry of the log of an await_task call
AwaitEvent(ev, id, signaled) == [ev |-> ev, id |-> id, signaled |-> signaled]

\* AwaitEach giving up at the first tensor without a backing (mutation)
RECURSIVE AwaitEach_stops_without_backing(_, _, _, _)
AwaitEach_stops_without_backing(d, parent, sync_tensors, r) ==
    IF sync_tensors = <<>> THEN r
    ELSE
      LET k == Head(sync_tensors)
          tensor == r.tensors[k]
          found == Get(parent.buffers, tensor.id)
      IN IF IsNone(found)
         THEN [r EXCEPT !.log = Append(@, AwaitEvent("no_backing", tensor.id, r.signaled))]
         ELSE IF IsNone(Unwrap(found).readback_buffer)
         THEN [r EXCEPT !.log = Append(@, AwaitEvent("panic", tensor.id, r.signaled)),
                        !.panicked = TRUE]
         ELSE AwaitEach_stops_without_backing(d, parent, Tail(sync_tensors),
                 [r EXCEPT !.tensors[k].local_data =
                               ReadMemory(d.memory[Unwrap(Unwrap(found).readback_buffer)
                                                      .allocation.id],
                                          Len(tensor.local_data)),
                           !.log = Append(@, AwaitEvent("copy", tensor.id, r.signaled))])

\* the closure of await_task applied to the tensors still to sync; r holds the
\* caller's tensors, the log of what was done and whether the closure panicked.
\* A backing without a readback buffer makes `readback_buffer.as_ref().unwrap()`
\* panic.
RECURSIVE AwaitEach(_, _, _, _)
AwaitEach(d, parent, sync_tensors, r) ==
    IF sync_tensors = <<>> THEN r
    ELSE
      LET k == Head(sync_tensors)
          tensor == r.tensors[k]
          found == Get(parent.buffers, tensor.id)
      IN IF IsNone(found)
         THEN AwaitEach(d, parent, Tail(sync_tensors),
                 [r EXCEPT !.log = Append(@, AwaitEvent("no_backing", tensor.id, r.signaled))])
         ELSE IF IsNone(Unwrap(found).readback_buffer)
         THEN [r EXCEPT !.log = Append(@, AwaitEvent("panic", tensor.id, r.signaled)),
                        !.panicked = TRUE]
         ELSE AwaitEach(d, parent, Tail(sync_tensors),
                 [r EXCEPT !.tensors[k].local_data =
                               ReadMemory(d.memory[Unwrap(Unwrap(found).readback_buffer)
                                                      .allocation.id],
                                          Len(tensor.local_data)),
                           !.log = Append(@, AwaitEvent("copy", tensor.id, r.signaled))])

\* the copies of an await_task call that read past the end of the readback
\* allocation (copy_from reads tensor.data().len() elements)
OverReads(parent, r) ==
    {<<"host_read_out_of_bounds", Unwrap(parent.buffers[r.tensors[k].id].readback_buffer).allocation.id>> :
        k \in {k \in 1..Len(r.tensors) :
                 /\ \E e \in 1..Len(r.log) :
                       r.log[e].ev = "copy" /\ r.log[e].id = r.tensors[k].id
                 /\ Len(r.tensors[k].local_data) * 4 >
                       Unwrap(parent.buffers[r.tensors[k].id].readback_buffer).allocation.size}}

\* ComputeManager::await_task(primitive, sync_tensors) with the caller's tensors ts:
\* sync_tensors are positions of ts (a Vec<&mut Tensor> cannot name a tensor
\* twice); wait is what wait_for_fences returned, which the code discards.
\* [d, tensors, wait, log, panicked]
await_task(d, ts, primitive, sync_tensors, wait) ==
    LET signaled == Signaled(d, primitive.fence)
        d1 == destroy_fence(wait_for_fences(d, primitive.fence), primitive.fence)
        r == AwaitEach(d1, primitive.parent, sync_tensors,
                       [tensors |-> ts,
                        log |-> <<AwaitEvent("wait_for_fences", primitive.fence, signaled),
                                  AwaitEvent("destroy_fence", primitive.fence, signaled)>>,
                        panicked |-> FALSE,
                        signaled |-> signaled])
    IN [d |-> [d1 EXCEPT !.misuse = @ \cup OverReads(primitive.parent, r)],
        tensors |-> r.tensors, wait |-> wait, log |-> r.log, panicked |-> r.panicked]

------------------------------------------------------------------------------
(* lib/pipeline.rs *)

\* ComputeManager::compile_program: [d, program]
compile_program(d, shader, outcome) ==
    IF outcome # "Ok" THEN [d |-> d, program |-> None]
    ELSE [d |-> [d EXCEPT !.shader_modules = @ \cup {d.next_handle}, !.next_handle = @ + 1],
          program |-> Some([shader_module |-> d.next_handle, shader |-> shader])]

\* enum PipelineCreateError (the kinds build_pipeline returns)
PipelineCreateError ==
    {"DescriptorSetLayoutCreationFailure", "PipelineLayoutCreationFailure",
     "PipelineCreationFailure", "DescriptorPoolCreationFailure"}

\* DescriptorPoolCreateInfo.max_sets of the pool build_pipeline creates
PIPELINE_MAX_SETS == 10

\* ComputeManager::build_pipeline: [d, pipeline]
build_pipeline(d, prog, n_tensors, outcome) ==
    IF outcome = "DescriptorSetLayoutCreationFailure" THEN [d |-> d, pipeline |-> None]
    ELSE
      LET descriptor_set_layout == d.next_handle
          d1 == [d EXCEPT !.descriptor_set_layouts = @ \cup {descriptor_set_layout},
                          !.next_handle = @ + 1]
      IN IF outcome = "PipelineLayoutCreationFailure" THEN [d |-> d1, pipeline |-> None]
         ELSE
           LET pipeline_layout == d1.next_handle
               d2 == [d1 EXCEPT !.pipeline_layouts = @ \cup {pipeline_layout},
                                !.next_handle = @ + 1]
           IN IF outcome = "PipelineCreationFailure" THEN [d |-> d2, pipeline |-> None]
              ELSE
                LET pl == d2.next_handle
                    d3 == [d2 EXCEPT !.pipelines = @ \cup {pl},
                                     !.shaders = (pl :> prog.shader) @@ @,
                                     !.shader_modules = @ \ {prog.shader_module},
                                     !.next_handle = @ + 1]
                IN IF outcome = "DescriptorPoolCreationFailure"
                   THEN [d |-> d3, pipeline |-> None]
                   ELSE
                     LET descriptor_pool == d3.next_handle
                     IN [d |-> [d3 EXCEPT !.descriptor_pools =
                                              (descriptor_pool :> PIPELINE_MAX_SETS) @@ @,
                                          !.next_handle = @ + 1],
                         pipeline |-> Some([pipeline |-> pl,
                                            pipeline_layout |-> pipeline_layout,
                                            descriptor_set_layout |-> descriptor_set_layout,
                                            descriptor_pool |-> descriptor_pool,
                                            n_tensors |-> n_tensors])]

\* vkDestroyPipeline, vkDestroyPipelineLayout, vkDestroyDescriptorSetLayout
destroy_pipeline(d, pl) ==
    IF pl \in d.pipelines
    THEN [d EXCEPT !.pipelines = @ \ {pl}, !.shaders = Without(@, pl)]
    ELSE [d EXCEPT !.misuse = @ \cup {<<"destroy_pipeline", pl>>}]

destroy_pipeline_layout(d, layout) ==
    IF layout \in d.pipeline_layouts THEN [d EXCEPT !.pipeline_layouts = @ \ {layout}]
    ELSE [d EXCEPT !.misuse = @ \cup {<<"destroy_pipeline_layout", layout>>}]

destroy_descriptor_set_layout(d, layout) ==
    IF layout \in d.descriptor_set_layouts
    THEN [d EXCEPT !.descriptor_set_layouts = @ \ {layout}]
    ELSE [d EXCEPT !.misuse = @ \cup {<<"destroy_descriptor_set_layout", layout>>}]

\* Drop::drop(&mut Pipeline): [d, calls], calls being the release calls in order
drop_pipeline(d, pl) ==
    [d |-> destroy_pipeline(
             destroy_descriptor_pool(
               destroy_descriptor_set_layout(
                 destroy_pipeline_layout(d, pl.pipeline_layout),
                 pl.descriptor_set_layout),
               pl.descriptor_pool),
             pl.pipeline),
     calls |-> <<Call("destroy_pipeline_layout", pl.pipeline_layout),
                 Call("destroy_descriptor_set_layout", pl.descriptor_set_layout),
                 Call("destroy_descriptor_pool", pl.descriptor_pool),
                 Call("destroy_pipeline", pl.pipeline)>>]

------------------------------------------------------------------------------
(* lib/lib.rs: the Arc<ComputeManager> and impl Drop for ComputeManager *)

\* Arc::clone that does not count the new handle (mutation)
arc_clone_without_count(m) == m

\* Arc::clone: one more handle
arc_clone(m) == [m EXCEPT !.strong = @ + 1]

\* device_wait_idle: every submission of the queue completes
RECURSIVE device_wait_idle(_)
device_wait_idle(d) ==
    IF d.queue = <<>> THEN d ELSE device_wait_idle(complete_submission(d))

\* vkDestroyDevice: every object created from the device must have been destroyed
destroy_device(d) ==
    IF /\ DOMAIN d.buffers = {}
       /\ DOMAIN d.fences = {}
       /\ DOMAIN d.descriptor_pools = {}
       /\ d.shader_modules = {}
       /\ d.descriptor_set_layouts = {}
       /\ d.pipeline_layouts = {}
       /\ d.pipelines = {}
    THEN d
    ELSE [d EXCEPT !.misuse = @ \cup {<<"destroy_device", 0>>}]

\* Drop::drop(&mut ComputeManager): [d, destroyed].  wait is what device_wait_idle
\* returns; its unwrap panics on an error and nothing is released.  Otherwise
\* destroy_command_pool frees the command buffers of the pool, dropping the
\* allocator frees its memory, and the device and the instance are destroyed.
drop_manager(d, wait) ==
    IF wait # "SUCCESS" THEN [d |-> d, destroyed |-> FALSE]
    ELSE [d |-> destroy_device([device_wait_idle(d) EXCEPT !.command_buffers = <<>>,
                                                           !.allocations = {},
                                                           !.memory = <<>>,
                                                           !.mapped = {}]),
          destroyed |-> TRUE]

\* one Arc<ComputeManager> goes out of scope: the last one drops the manager.
\* [m, d]
arc_drop(m, d, wait) ==
    IF m.strong > 1 THEN [m |-> [m EXCEPT !.strong = @ - 1], d |-> d]
    ELSE LET r == drop_manager(d, wait)
         IN [m |-> [m EXCEPT !.strong = 0, !.destroyed = r.destroyed], d |-> r.d]

------------------------------------------------------------------------------
(* The caller: one step per API call *)

NoResult == [ok |-> None, err |-> None]
NoFault == [step |-> "none", n |-> 0, err |-> "none"]
NoCall == [op |-> "", tensors |-> <<>>]
\* the threads that share the manager, and a thread that has not started
Threads == 1..NumThreads
IdleThread ==
    [pc |-> "start", id |-> FromNat(0), tensor |-> None, s |-> None, i |-> 0,
     task |-> None, keys |-> {}]

\* n: the exec_task calls made on the task; ended: whether an earlier one of
\* them ended the command buffer; returned: what the last one returned
NoExec ==
    [called |-> FALSE, fault |-> "", submitted |-> <<>>, n |-> 0, ended |-> FALSE,
     returned |-> None]
\* n: the await_task calls made on the handle
NoAwait ==
    [called |-> FALSE, sync_tensors |-> <<>>, before |-> <<>>, wait |-> "", log |-> <<>>,
     n |-> 0]
\* pipeline: the calls of Drop for Pipeline; runs: the calls of each run of Drop
\* for GPUTask on the task; left: the GPUTask value the last run left behind
NoTeardown == [pipeline |-> <<>>, runs |-> <<>>, left |-> None]
NothingAcquired ==
    [bindings |-> <<>>, fault |-> NoFault, steps |-> <<>>, allocs |-> <<>>, buffers |-> {}, allocations |-> {}, descriptor_pools |-> {},
     descriptor_sets |-> {}, command_buffers |-> {}]

\* compute_init: what the caller holds and the driver state once the manager is
\* constructed, the id counter apart
Constructed ==
    /\ tensors = <<>>
    /\ program = None
    /\ pipeline = None
    /\ vk = [buffers |-> <<>>, allocations |-> {}, memory |-> <<>>, mapped |-> {},
             fences |-> <<>>, queue |-> <<>>,
             descriptor_pools |-> <<>>, descriptor_sets |-> <<>>,
             command_buffers |-> <<>>, shader_modules |-> {}, shaders |-> <<>>,
             descriptor_set_layouts |-> {}, pipeline_layouts |-> {}, pipelines |-> {},
             next_handle |-> 1, poisoned |-> FALSE, misuse |-> {}]
    /\ builder = None
    /\ task = None
    /\ result = NoResult
    /\ phase = "start"
    /\ ncalls = 0
    /\ history = <<>>
    /\ last_call = NoCall
    /\ acquired = NothingAcquired
    /\ sync = None
    /\ last_exec = NoExec
    /\ last_await = NoAwait
    /\ teardown = NoTeardown
    /\ manager = [strong |-> 1, held |-> TRUE, destroyed |-> FALSE]
    /\ allocator = [writer |-> 0]
    /\ busy = {}
    /\ threads = [t \in Threads |-> IdleThread]

\* current_tensor_id: AtomicU32::new(0)
Init ==
    /\ current_tensor_id = FromNat(0)
    /\ Constructed

\* AtomicU32::fetch_add(1) that does not store the sum (mutation)
fetch_add_without_store(value) == [old |-> value, new |-> value]

\* AtomicU32::fetch_add(1, Relaxed): one atomic step that returns the old value
\* and stores the sum, which wraps around on overflow
fetch_add(value) == [old |-> value, new |-> wrapping_add_one(value)]

\* lib/allocation_strategy.rs: ComputeManager::create_tensor
create_tensor(data, enable_readback) ==
    [id |-> fetch_add(current_tensor_id).old, readback_enabled |-> enable_readback,
     local_data |-> data]

CreateTensorCall(data) ==
    /\ phase = "start"
    /\ manager.held
    /\ \E enable_readback \in BOOLEAN :
          tensors' = Append(tensors, create_tensor(data, enable_readback))
    /\ current_tensor_id' = fetch_add(current_tensor_id).new
    /\ UNCHANGED <<program, pipeline, vk, builder, task, result, phase, ncalls,
                   history, last_call, acquired>>
    /\ UNCHANGED <<sync, last_exec, last_await>>
    /\ UNCHANGED thread_vars
    /\ UNCHANGED teardown
    /\ UNCHANGED manager

CreateTensor ==
    /\ Len(tensors) < MaxTensors
    /\ CreateTensorCall(DataOfLen(Len(tensors) + 1))

CompileProgramCall(shader) ==
    /\ phase = "start"
    /\ manager.held
    /\ IsNone(program)
    /\ \E outcome \in {"Ok", "SPIRVCompilationError", "ModuleCreationError"} :
          LET r == compile_program(vk, shader, outcome)
          IN /\ vk' = r.d
             /\ program' = r.program
             /\ phase' = IF IsSome(r.program) THEN "start" ELSE "ended"
    /\ UNCHANGED <<current_tensor_id, tensors, pipeline, builder, task, result, ncalls,
                   history, last_call, acquired>>
    /\ UNCHANGED <<sync, last_exec, last_await>>
    /\ UNCHANGED thread_vars
    /\ UNCHANGED teardown
    /\ UNCHANGED manager

\* the program compiled from the shader of main, the one shader of the repository
CompileProgram == CompileProgramCall("square")

\* build_pipeline(self: Arc<Self>, ..): the Pipeline it returns holds a handle of
\* the manager (parent: self.clone())
BuildPipeline ==
    /\ phase = "start"
    /\ manager.held
    /\ IsSome(program)
    /\ \E outcome \in {"Ok"} \cup PipelineCreateError :
          LET r == build_pipeline(vk, Unwrap(program), MaxTensors, outcome)
          IN /\ vk' = r.d
             /\ pipeline' = r.pipeline
             /\ phase' = IF IsSome(r.pipeline) THEN "idle" ELSE "ended"
             /\ manager' = IF IsSome(r.pipeline) THEN arc_clone(manager) ELSE manager
    /\ program' = None
    /\ UNCHANGED <<current_tensor_id, tensors, builder, task, result, ncalls,
                   history, last_call, acquired>>
    /\ UNCHANGED <<sync, last_exec, last_await>>
    /\ UNCHANGED thread_vars
    /\ UNCHANGED teardown

\* the allocate_buffer calls new_task makes for a bindings list when none fails
RECURSIVE NumAllocateCalls(_)
NumAllocateCalls(bindings) ==
    IF bindings = <<>> THEN 0
    ELSE (IF Head(bindings).readback_enabled THEN 3 ELSE 2) + NumAllocateCalls(Tail(bindings))

Faults(bindings) ==
    {NoFault}
    \cup {[step |-> "buffer", n |-> k, err |-> e] :
             k \in 1..NumAllocateCalls(bindings), e \in AllocateFaults}
    \cup {[step |-> x, n |-> 0, err |-> "none"] :
             x \in {"descriptor_pool", "descriptor_set", "command_buffer", "begin"}}

\* new_task(self: Arc<Self>, ..): the GPUTask of the builder it returns holds a
\* handle of the manager (_parent: self.clone())
NewTaskCall(list) ==
    /\ phase = "idle"
    /\ manager.held
    /\ \E fault \in Faults(Refs(list)) :
          LET r == new_task(vk, Unwrap(pipeline), Refs(list), fault)
          IN /\ vk' = r.d
             /\ builder' = Some(r.builder)
             /\ manager' = IF IsSome(r.builder.task) THEN arc_clone(manager) ELSE manager
             /\ acquired' =
                   [bindings |-> Refs(list),
                    fault |-> fault,
                    steps |-> r.steps,
                    allocs |-> r.allocs,
                    buffers |-> DOMAIN r.d.buffers \ DOMAIN vk.buffers,
                    allocations |-> r.d.allocations \ vk.allocations,
                    descriptor_pools |-> DOMAIN r.d.descriptor_pools \ DOMAIN vk.descriptor_pools,
                    descriptor_sets |-> DOMAIN r.d.descriptor_sets \ DOMAIN vk.descriptor_sets,
                    command_buffers |-> DOMAIN r.d.command_buffers \ DOMAIN vk.command_buffers]
    /\ phase' = "recording"
    /\ ncalls' = 0
    /\ history' = <<>>
    /\ last_call' = NoCall
    /\ result' = NoResult
    /\ UNCHANGED <<current_tensor_id, tensors, program, pipeline, task>>
    /\ UNCHANGED <<sync, last_exec, last_await>>
    /\ UNCHANGED thread_vars
    /\ UNCHANGED teardown

NewTask == \E list \in TensorLists : NewTaskCall(list)

\* the command stream of the builder's command buffer (empty for a failed builder)
Stream(d, b) ==
    IF IsSome(b.task) THEN d.command_buffers[Unwrap(b.task).command_buffer].cmds ELSE <<>>

\* the log entry of one op_* call that moved the driver from vk to d
Logged(op, tensor_list, d) ==
    LET b == Unwrap(builder)
    IN [op |-> op,
        recorded |-> SubSeq(Stream(d, b), Len(Stream(vk, b)) + 1, Len(Stream(d, b)))]

\* the logs after one op_* call: a call on a failed builder is only counted
Log(op, tensor_list, d) ==
    IF EarlyReturn(Unwrap(builder))
    THEN UNCHANGED <<history, last_call>>
    ELSE /\ history' = Append(history, Logged(op, tensor_list, d))
         /\ last_call' = [op |-> op, tensors |-> tensor_list]

OpLocalSyncDeviceCall(list) ==
    /\ phase = "recording"
    /\ LET d == op_local_sync_device(vk, Unwrap(builder), Refs(list))
       IN /\ vk' = d
          /\ Log("op_local_sync_device", Refs(list), d)
    /\ builder' = builder
    /\ ncalls' = ncalls + 1
    /\ UNCHANGED <<current_tensor_id, tensors, program, pipeline, task, result, phase,
                   acquired>>
    /\ UNCHANGED <<sync, last_exec, last_await>>
    /\ UNCHANGED thread_vars
    /\ UNCHANGED teardown
    /\ UNCHANGED manager

OpLocalSyncDevice ==
    /\ ncalls < MaxCalls
    /\ \E list \in TensorLists : OpLocalSyncDeviceCall(list)

WorkGroups == {[x |-> MaxTensors, y |-> 1, z |-> 1]}

OpPipelineDispatchCall(work_group) ==
    /\ phase = "recording"
    /\ LET d == op_pipeline_dispatch(vk, Unwrap(builder), work_group)
       IN /\ vk' = d
          /\ Log("op_pipeline_dispatch", <<>>, d)
    /\ builder' = builder
    /\ ncalls' = ncalls + 1
    /\ UNCHANGED <<current_tensor_id, tensors, program, pipeline, task, result, phase,
                   acquired>>
    /\ UNCHANGED <<sync, last_exec, last_await>>
    /\ UNCHANGED thread_vars
    /\ UNCHANGED teardown
    /\ UNCHANGED manager

OpPipelineDispatch ==
    /\ ncalls < MaxCalls
    /\ \E work_group \in WorkGroups : OpPipelineDispatchCall(work_group)

OpDeviceSyncLocalCall(list) ==
    /\ phase = "recording"
    /\ LET d == op_device_sync_local(vk, Unwrap(builder), Refs(list))
       IN /\ vk' = d
          /\ Log("op_device_sync_local", Refs(list), d)
    /\ builder' = builder
    /\ ncalls' = ncalls + 1
    /\ UNCHANGED <<current_tensor_id, tensors, program, pipeline, task, result, phase,
                   acquired>>
    /\ UNCHANGED <<sync, last_exec, last_await>>
    /\ UNCHANGED thread_vars
    /\ UNCHANGED teardown
    /\ UNCHANGED manager

OpDeviceSyncLocal ==
    /\ ncalls < MaxCalls
    /\ \E list \in TensorLists : OpDeviceSyncLocalCall(list)

Finalize ==
    /\ phase = "recording"
    /\ LET r == finalize(Unwrap(builder))
       IN /\ result' = r
          /\ task' = r.ok
          /\ phase' = IF IsSome(r.ok) THEN "task" ELSE "failed"
          /\ history' = IF IsSome(r.ok) THEN history ELSE <<>>
          /\ last_call' = NoCall
          /\ ncalls' = ncalls
    /\ builder' = None
    /\ UNCHANGED <<current_tensor_id, tensors, program, pipeline, vk, acquired>>
    /\ UNCHANGED <<sync, last_exec, last_await>>
    /\ UNCHANGED thread_vars
    /\ UNCHANGED teardown
    /\ UNCHANGED manager

\* a value that holds a handle of the manager has run its Drop::drop on driver
\* state d; its fields are dropped next, the Arc<ComputeManager> among them
ReleaseManager(d) ==
    \E wait \in WaitResults :
       LET r == arc_drop(manager, d, wait)
       IN /\ vk' = r.d
          /\ manager' = r.m

\* the builder goes out of scope without finalize: its task, if any, is dropped
DropBuilder ==
    /\ phase = "recording"
    /\ LET b == Unwrap(builder)
       IN IF IsSome(b.task)
          THEN LET r == drop_task(vk, Unwrap(b.task))
               IN /\ ReleaseManager(r.d)
                  /\ teardown' = [teardown EXCEPT !.runs = Append(@, r.calls),
                                                  !.left = Some(r.task)]
                  /\ phase' = "dropped"
          ELSE /\ vk' = vk
               /\ manager' = manager
               /\ teardown' = teardown
               /\ phase' = "failed"
    /\ builder' = None
    /\ history' = <<>>
    /\ last_call' = NoCall
    /\ ncalls' = 0
    /\ UNCHANGED <<current_tensor_id, tensors, program, pipeline, task, result, acquired>>
    /\ UNCHANGED <<sync, last_exec, last_await>>
    /\ UNCHANGED thread_vars

\* one call of ComputeManager::exec_task(&task) on the finalized task; the caller
\* keeps the handle returned last
ExecTaskCall ==
    /\ manager.held
    /\ \E fault \in {"none"} \cup SubmitFaults :
          LET r == exec_task(vk, Unwrap(task), fault)
          IN /\ vk' = r.d
             /\ sync' = IF IsSome(r.sync) THEN r.sync ELSE sync
             /\ phase' = IF IsSome(r.sync) THEN "submitted"
                         ELSE IF phase = "task" THEN "exec_failed" ELSE phase
             /\ last_exec' = [called |-> TRUE, fault |-> fault,
                              submitted |-> SubSeq(r.d.queue, Len(vk.queue) + 1,
                                                   Len(r.d.queue)),
                              n |-> last_exec.n + 1,
                              ended |-> last_exec.n > 0
                                        /\ (last_exec.ended
                                            \/ last_exec.fault # "end_command_buffer"),
                              returned |-> r.sync]
             /\ last_await' = IF IsSome(r.sync) THEN NoAwait ELSE last_await
    /\ UNCHANGED <<current_tensor_id, tensors, program, pipeline, builder, task, result,
                   ncalls, history, last_call, acquired>>
    /\ UNCHANGED thread_vars
    /\ UNCHANGED teardown
    /\ UNCHANGED manager

\* the first exec_task call on the finalized task
ExecTask ==
    /\ phase = "task"
    /\ ExecTaskCall

\* a further exec_task call on the same task: the call only borrows the task, so
\* it can be made again after a failed call, while the handle of an earlier call
\* is held, or after that handle was awaited
ExecTaskAgain ==
    /\ phase \in {"exec_failed", "submitted", "awaited"}
    /\ last_exec.n < MaxExecs
    /\ ExecTaskCall

\* the device finishes the oldest submission of the compute queue
DeviceCompletes ==
    /\ vk.queue # <<>>
    /\ vk' = complete_submission(vk)
    /\ UNCHANGED <<current_tensor_id, tensors, program, pipeline, builder, task, result,
                   phase, ncalls, history, last_call, acquired, sync, last_exec,
                   last_await>>
    /\ UNCHANGED thread_vars
    /\ UNCHANGED teardown
    /\ UNCHANGED manager

\* Vec<&mut Tensor>: lists of exclusive references to the caller's tensors
MutTensorLists ==
    {list \in TensorLists : \A i, j \in 1..Len(list) : i # j => list[i] # list[j]}

\* ComputeManager::await_task on the handle exec_task returned.  The wait blocks
\* without timeout: it returns SUCCESS only once the fence is signaled, and an
\* error whenever the driver gives up.
AwaitTaskCall ==
    /\ manager.held
    /\ \E list \in MutTensorLists :
          \E wait \in WaitResults :
             /\ wait = "SUCCESS" =>
                   \/ Signaled(vk, Unwrap(sync).fence)
                   \/ Unwrap(sync).fence \notin DOMAIN vk.fences
             /\ LET r == await_task(vk, tensors, Unwrap(sync), list, wait)
                IN /\ vk' = r.d
                   /\ tensors' = r.tensors
                   /\ phase' = IF r.panicked THEN "panicked" ELSE "awaited"
                   /\ last_await' = [called |-> TRUE, sync_tensors |-> list,
                                     before |-> tensors, wait |-> r.wait, log |-> r.log,
                                     n |-> last_await.n + 1]
    /\ UNCHANGED <<current_tensor_id, program, pipeline, builder, task, result, ncalls,
                   history, last_call, acquired, sync, last_exec>>
    /\ UNCHANGED thread_vars
    /\ UNCHANGED teardown
    /\ UNCHANGED manager

\* the first await_task call on the handle exec_task returned
AwaitTask ==
    /\ phase = "submitted"
    /\ last_await.n = 0
    /\ AwaitTaskCall

\* a further await_task call on the same handle: the call only borrows the handle
AwaitTaskAgain ==
    /\ phase = "awaited"
    /\ last_await.n < MaxAwaits
    /\ AwaitTaskCall

\* the finalized task goes out of scope, and with it the handle that borrows it
\* (a panic in await_task unwinds through the scope that holds the task)
DropTask ==
    /\ phase \in {"task", "exec_failed", "submitted", "awaited", "panicked"}
    /\ LET r == drop_task(vk, Unwrap(task))
       IN /\ ReleaseManager(r.d)
          /\ teardown' = [teardown EXCEPT !.runs = Append(@, r.calls),
                                          !.left = Some(r.task)]
    /\ task' = None
    /\ sync' = None
    /\ phase' = "dropped"
    /\ history' = <<>>
    /\ last_call' = NoCall
    /\ ncalls' = 0
    /\ last_exec' = NoExec
    /\ last_await' = NoAwait
    /\ UNCHANGED <<current_tensor_id, tensors, program, pipeline, builder, result, acquired>>
    /\ UNCHANGED thread_vars

\* the teardown logic of the task run once more, on the value the first run left
\* (Drop::drop is an ordinary function of &mut GPUTask: ManuallyDrop::drop or
\* ptr::drop_in_place called a second time runs it again)
DropTaskAgain ==
    /\ phase = "dropped"
    /\ Len(teardown.runs) = 1
    /\ LET r == drop_task(vk, Unwrap(teardown.left))
       IN /\ vk' = r.d
          /\ teardown' = [teardown EXCEPT !.runs = Append(@, r.calls),
                                          !.left = Some(r.task)]
    /\ UNCHANGED <<current_tensor_id, tensors, program, pipeline, builder, task, result,
                   phase, ncalls, history, last_call, acquired, sync, last_exec,
                   last_await>>
    /\ UNCHANGED thread_vars
    /\ UNCHANGED manager

\* the pipeline goes out of scope once no task built from it is alive (locals are
\* dropped in reverse order of declaration, the pipeline after its tasks)
DropPipeline ==
    /\ phase \in {"idle", "failed", "dropped"}
    /\ IsSome(pipeline)
    /\ LET r == drop_pipeline(vk, Unwrap(pipeline))
       IN /\ ReleaseManager(r.d)
          /\ teardown' = [teardown EXCEPT !.pipeline = r.calls]
    /\ pipeline' = None
    /\ phase' = "ended"
    /\ UNCHANGED <<current_tensor_id, tensors, program, builder, task, result, ncalls,
                   history, last_call, acquired, sync, last_exec, last_await>>
    /\ UNCHANGED thread_vars

\* the pipeline is dropped while a task built from it is alive (new_task borrows
\* the pipeline only for the call, the task does not hold it)
DropPipelineEarly ==
    /\ phase \in {"recording", "task", "exec_failed", "submitted"}
    /\ IsSome(pipeline)
    /\ LET r == drop_pipeline(vk, Unwrap(pipeline))
       IN /\ ReleaseManager(r.d)
          /\ teardown' = [teardown EXCEPT !.pipeline = r.calls]
    /\ pipeline' = None
    /\ UNCHANGED <<current_tensor_id, tensors, program, builder, task, result, phase,
                   ncalls, history, last_call, acquired, sync, last_exec, last_await>>
    /\ UNCHANGED thread_vars

\* the caller drops the Arc<ComputeManager> compute_init returned
DropManager ==
    /\ manager.held
    /\ \E wait \in WaitResults :
          LET r == arc_drop([manager EXCEPT !.held = FALSE], vk, wait)
          IN /\ vk' = r.d
             /\ manager' = r.m
    /\ UNCHANGED <<current_tensor_id, tensors, program, pipeline, builder, task, result,
                   phase, ncalls, history, last_call, acquired, sync, last_exec,
                   last_await, teardown>>
    /\ UNCHANGED thread_vars

Next ==
    \/ CreateTensor
    \/ CompileProgram
    \/ BuildPipeline
    \/ NewTask
    \/ OpLocalSyncDevice
    \/ OpPipelineDispatch
    \/ OpDeviceSyncLocal
    \/ Finalize
    \/ DropBuilder
    \/ ExecTask
    \/ DeviceCompletes
    \/ AwaitTask
    \/ DropTask
    \/ DropTaskAgain
    \/ DropPipeline

Spec == Init /\ [][Next]_vars

\* A caller that reuses the task and the handle: exec_task and await_task take
\* references, so each can be called again on the same task or handle.  The
\* task is finalized as new_task returned it, with its two bind commands.
NextReuse ==
    \/ CreateTensor
    \/ CompileProgram
    \/ BuildPipeline
    \/ NewTask
    \/ Finalize
    \/ ExecTask
    \/ ExecTaskAgain
    \/ DeviceCompletes
    \/ AwaitTask
    \/ AwaitTaskAgain
    \/ DropTask

SpecReuse == Init /\ [][NextReuse]_vars

\* what a caller can leave in a tensor through data_mut(): the elements
\* overwritten in place, or the array replaced by a longer one
Mutations(data) == {[i \in 1..Len(data) |-> data[i] + 10], data \o <<0>>}

\* Tensor::data_mut: the caller changes the data of one of its tensors, once in
\* a run.  No call borrows a tensor beyond its own return, so this can happen
\* between any two calls.
DataMut ==
    /\ phase \in {"recording", "task", "submitted"}
    /\ \A j \in 1..Len(tensors) : tensors[j].local_data = DataOfLen(j)
    /\ \E k \in 1..Len(tensors) :
          /\ \E data \in Mutations(tensors[k].local_data) :
                tensors' = [tensors EXCEPT ![k].local_data = data]
    /\ UNCHANGED <<current_tensor_id, program, pipeline, vk, builder, task, result, phase,
                   ncalls, history, last_call, acquired, sync, last_exec, last_await>>
    /\ UNCHANGED thread_vars
    /\ UNCHANGED teardown
    /\ UNCHANGED manager

\* A caller that changes its tensors between the calls that record, submit and
\* await a task
NextMutate ==
    \/ CreateTensor
    \/ CompileProgram
    \/ BuildPipeline
    \/ NewTask
    \/ DataMut
    \/ OpLocalSyncDevice
    \/ OpDeviceSyncLocal
    \/ Finalize
    \/ ExecTask
    \/ DeviceCompletes
    \/ AwaitTask

SpecMutate == Init /\ [][NextMutate]_vars

\* A caller that drops its handles in any order: the handle of the manager, the
\* pipeline, the builder or the task
NextOwners ==
    \/ CreateTensor
    \/ CompileProgram
    \/ BuildPipeline
    \/ NewTask
    \/ Finalize
    \/ ExecTask
    \/ DeviceCompletes
    \/ DropBuilder
    \/ DropTask
    \/ DropPipeline
    \/ DropPipelineEarly
    \/ DropManager

SpecOwners == Init /\ [][NextOwners]_vars

------------------------------------------------------------------------------
(* src/main.rs: two tensors of five elements, a pipeline of two bindings, one    *)
(* task that binds both tensors, uploads, dispatches (5, 1, 1), downloads, is    *)
(* executed and awaited.  The data and readback flags of the tensors, the shader *)
(* and the tensor lists of the three calls that take one are inputs.             *)

\* the arrays the tensors of main are created from
MainData == {<<1, 2, 3, 4, 5>>, <<5, 4, 3, 2, 1>>}

\* WorkGroupSize { x: 5, y: 1, z: 1 }
MainWorkGroup == [x |-> 5, y |-> 1, z |-> 1]

\* the number of tensors main creates, and the bindings of its pipeline
MAIN_TENSORS == 2

\* main with its shader, or with a shader that changes nothing
MainCompileProgram == \E shader \in Shaders : CompileProgramCall(shader)

MainCreateTensor ==
    /\ Len(tensors) < MAIN_TENSORS
    /\ \E data \in MainData : CreateTensorCall(data)

\* new_task(&pipeline, vec![&tensor_in, &tensor_out])
MainNewTask ==
    /\ Len(tensors) = MAIN_TENSORS
    /\ NewTaskCall(<<1, 2>>)

MainLocalSyncDevice ==
    /\ ncalls = 0
    /\ \E list \in TensorLists : OpLocalSyncDeviceCall(list)

MainPipelineDispatch ==
    /\ ncalls = 1
    /\ OpPipelineDispatchCall(MainWorkGroup)

MainDeviceSyncLocal ==
    /\ ncalls = 2
    /\ \E list \in TensorLists : OpDeviceSyncLocalCall(list)

MainFinalize ==
    /\ ncalls = 3
    /\ Finalize

NextMain ==
    \/ MainCreateTensor
    \/ MainCompileProgram
    \/ BuildPipeline
    \/ MainNewTask
    \/ MainLocalSyncDevice
    \/ MainPipelineDispatch
    \/ MainDeviceSyncLocal
    \/ MainFinalize
    \/ ExecTask
    \/ DeviceCompletes
    \/ AwaitTask
    \/ DropTask

SpecMain == Init /\ [][NextMain]_vars

------------------------------------------------------------------------------
(* The id counter at the end of its range: a manager on which create_tensor was *)
(* called c times before (the tensors dropped again) is in the state of a new   *)
(* manager except for its counter, which holds c modulo 2^32.                   *)

\* the counter after 0, 2^16 - 1, 2^32 - 2 and 2^32 - 1 earlier create_tensor calls
EarlierCalls == {FromNat(0), U32(0, HALF - 1), U32(HALF - 1, HALF - 2), U32_MAX}

InitWrap ==
    /\ current_tensor_id \in EarlierCalls
    /\ Constructed

NextWrap ==
    \/ CreateTensor
    \/ CompileProgram
    \/ BuildPipeline
    \/ NewTask
    \/ DropBuilder

SpecWrap == InitWrap /\ [][NextWrap]_vars

------------------------------------------------------------------------------
(* Threads that share one Arc<ComputeManager>: each creates a tensor, builds a  *)
(* task that binds it and drops the task.  A step is what one thread does      *)
(* between two points where another thread can observe or change shared state. *)

\* RwLock::write that never blocks (mutation)
can_write_always(lock, t) == TRUE

\* RwLock::write returns once no other thread holds the lock
can_write(lock, t) == lock.writer = 0

\* a write guard that keeps the lock when it goes out of scope (mutation)
unlock_never(lock) == lock

\* the RwLockWriteGuard goes out of scope: the lock is free again
unlock(lock) == [writer |-> 0]

\* the locals of a running new_task call, kept apart from the shared driver state
Detach(s) == [s EXCEPT !.d = <<>>]
Attach(s, d) == [s EXCEPT !.d = d]

\* the bindings a thread passes to new_task: the tensor it created
Bindings(t) == <<Unwrap(threads[t].tensor)>>

\* the failures a thread's new_task call may meet: none, or the sub-allocation
\* for the device-local, the staging or the readback buffer fails (the three
\* early returns taken while the lock is held)
ThreadFaults == {NoFault} \cup {[step |-> "buffer", n |-> k, err |-> "allocate"] : k \in 1..3}

\* create_tensor: the fetch_add on current_tensor_id
T_FetchAdd(t) ==
    /\ phase = "idle"
    /\ threads[t].pc = "start"
    /\ current_tensor_id' = fetch_add(current_tensor_id).new
    /\ threads' = [threads EXCEPT ![t].pc = "fetched",
                                  ![t].id = fetch_add(current_tensor_id).old]
    /\ UNCHANGED <<tensors, vk, allocator, busy>>
    /\ UNCHANGED caller_vars

\* create_tensor: the Tensor is returned to the thread, which keeps it
T_CreateTensor(t) ==
    /\ threads[t].pc = "fetched"
    /\ \E enable_readback \in BOOLEAN :
          threads' = [threads EXCEPT
                         ![t].pc = "tensor",
                         ![t].tensor = Some([id |-> threads[t].id,
                                             readback_enabled |-> enable_readback,
                                             local_data |-> DataOfLen(1)])]
    /\ UNCHANGED <<current_tensor_id, tensors, vk, allocator, busy>>
    /\ UNCHANGED caller_vars

\* new_task is entered
T_NewTask(t) ==
    /\ threads[t].pc = "tensor"
    /\ threads' = [threads EXCEPT ![t].pc = "loop", ![t].s = Some(Detach(Entered(vk))),
                                  ![t].i = 1]
    /\ UNCHANGED <<current_tensor_id, tensors, vk, allocator, busy>>
    /\ UNCHANGED caller_vars

\* new_task: self.allocator.write() at the head of a loop iteration
T_LockForAllocate(t) ==
    /\ threads[t].pc = "loop"
    /\ threads[t].i <= Len(Bindings(t))
    /\ can_write(allocator, t)
    /\ allocator' = [writer |-> t]
    /\ threads' = [threads EXCEPT ![t].pc = "locked_for_allocate"]
    /\ UNCHANGED <<current_tensor_id, tensors, vk, busy>>
    /\ UNCHANGED caller_vars

\* new_task: the thread enters the allocate_buffer calls of the iteration
T_BeginAllocate(t) ==
    /\ threads[t].pc = "locked_for_allocate"
    /\ busy' = busy \cup {t}
    /\ threads' = [threads EXCEPT ![t].pc = "allocating"]
    /\ UNCHANGED <<current_tensor_id, tensors, vk, allocator>>
    /\ UNCHANGED caller_vars

\* new_task: the allocate_buffer calls of the iteration are done
T_EndAllocate(t) ==
    /\ threads[t].pc = "allocating"
    /\ \E fault \in ThreadFaults :
          LET r == AllocateBacking(Attach(Unwrap(threads[t].s), vk),
                                   Bindings(t)[threads[t].i], fault)
          IN /\ vk' = r.d
             /\ threads' = [threads EXCEPT ![t].pc = "allocated", ![t].s = Some(Detach(r))]
    /\ busy' = busy \ {t}
    /\ UNCHANGED <<current_tensor_id, tensors, allocator>>
    /\ UNCHANGED caller_vars

\* new_task: the lock guard goes out of scope, at the end of the iteration or at
\* the early return
T_UnlockAfterAllocate(t) ==
    /\ threads[t].pc = "allocated"
    /\ allocator' = unlock(allocator)
    /\ threads' = IF IsSome(Unwrap(threads[t].s).errno)
                  THEN [threads EXCEPT ![t].pc = "done"]
                  ELSE [threads EXCEPT ![t].pc = "loop", ![t].i = @ + 1]
    /\ UNCHANGED <<current_tensor_id, tensors, vk, busy>>
    /\ UNCHANGED caller_vars

\* new_task after its loop: descriptor pool and set, command buffer, binds
T_FinishNewTask(t) ==
    /\ threads[t].pc = "loop"
    /\ threads[t].i > Len(Bindings(t))
    /\ LET r == AfterBackings(Attach(Unwrap(threads[t].s), vk), Unwrap(pipeline),
                              Bindings(t), NoFault)
       IN /\ vk' = r.d
          /\ threads' = [threads EXCEPT ![t].pc = "task", ![t].s = None,
                                        ![t].task = r.builder.task]
    /\ UNCHANGED <<current_tensor_id, tensors, allocator, busy>>
    /\ UNCHANGED caller_vars

\* Drop for GPUTask up to its loop over self.buffers
T_DropTask(t) ==
    /\ threads[t].pc = "task"
    /\ vk' = BeforeBackings(vk, Unwrap(threads[t].task))
    /\ threads' = [threads EXCEPT ![t].pc = "drop_loop",
                                  ![t].keys = DOMAIN Unwrap(threads[t].task).buffers]
    /\ UNCHANGED <<current_tensor_id, tensors, allocator, busy>>
    /\ UNCHANGED caller_vars

\* Drop for GPUTask: self.allocator.write() in the closure, for one backing
T_LockForFree(t) ==
    /\ threads[t].pc = "drop_loop"
    /\ threads[t].keys # {}
    /\ can_write(allocator, t)
    /\ allocator' = [writer |-> t]
    /\ threads' = [threads EXCEPT ![t].pc = "locked_for_free"]
    /\ UNCHANGED <<current_tensor_id, tensors, vk, busy>>
    /\ UNCHANGED caller_vars

\* Drop for GPUTask: the thread enters the free calls for the backing
T_BeginFree(t) ==
    /\ threads[t].pc = "locked_for_free"
    /\ busy' = busy \cup {t}
    /\ threads' = [threads EXCEPT ![t].pc = "freeing"]
    /\ UNCHANGED <<current_tensor_id, tensors, vk, allocator>>
    /\ UNCHANGED caller_vars

\* Drop for GPUTask: the free and destroy_buffer calls for the backing are done
T_EndFree(t) ==
    /\ threads[t].pc = "freeing"
    /\ LET k == CHOOSE x \in threads[t].keys : \A y \in threads[t].keys : U32LessEq(x, y)
           r == FreeBacking(vk, Unwrap(threads[t].task).buffers[k])
       IN /\ vk' = r.d
          /\ threads' = [threads EXCEPT ![t].pc = "freed",
                                        ![t].task[1].buffers[k] = r.buffer,
                                        ![t].keys = @ \ {k}]
    /\ busy' = busy \ {t}
    /\ UNCHANGED <<current_tensor_id, tensors, allocator>>
    /\ UNCHANGED caller_vars

\* Drop for GPUTask: the lock guard goes out of scope at the end of the closure;
\* after the last backing drop returns
T_UnlockAfterFree(t) ==
    /\ threads[t].pc = "freed"
    /\ allocator' = unlock(allocator)
    /\ threads' = IF threads[t].keys = {}
                  THEN [threads EXCEPT ![t].pc = "done", ![t].task = None]
                  ELSE [threads EXCEPT ![t].pc = "drop_loop"]
    /\ UNCHANGED <<current_tensor_id, tensors, vk, busy>>
    /\ UNCHANGED caller_vars

\* the manager is set up by one thread, then shared
NextThreads ==
    \/ CompileProgram
    \/ BuildPipeline
    \/ \E t \in Threads :
          \/ T_FetchAdd(t)
          \/ T_CreateTensor(t)
          \/ T_NewTask(t)
          \/ T_LockForAllocate(t)
          \/ T_BeginAllocate(t)
          \/ T_EndAllocate(t)
          \/ T_UnlockAfterAllocate(t)
          \/ T_FinishNewTask(t)
          \/ T_DropTask(t)
          \/ T_LockForFree(t)
          \/ T_BeginFree(t)
          \/ T_EndFree(t)
          \/ T_UnlockAfterFree(t)

SpecThreads == Init /\ [][NextThreads]_vars

\* the steps of a thread outside the driver calls of new_task
StepOutsideDriver(t) ==
    \/ T_FetchAdd(t)
    \/ T_CreateTensor(t)
    \/ T_NewTask(t)
    \/ T_LockForAllocate(t)
    \/ T_BeginAllocate(t)
    \/ T_UnlockAfterAllocate(t)
    \/ T_DropTask(t)
    \/ T_LockForFree(t)
    \/ T_BeginFree(t)
    \/ T_EndFree(t)
    \/ T_UnlockAfterFree(t)

\* the thread is inside the allocate_buffer calls of an iteration, or past the
\* loop of new_task: the positions at which T_EndAllocate and T_FinishNewTask
\* are enabled
InDriverCall(t) ==
    \/ threads[t].pc = "allocating"
    \/ threads[t].pc = "loop" /\ threads[t].i > Len(Bindings(t))

ReturnFromDriver(t) == T_EndAllocate(t) \/ T_FinishNewTask(t)

\* fair scheduling: a thread that can take a step, and goes on being able to,
\* takes it. A thread blocked in write() can take its step whenever the lock is
\* free; the lock itself promises no order among the waiting threads. The
\* second conjunct is weak fairness of ReturnFromDriver(t), with its
\* enabling condition written out: every driver call returns.
FairThreads ==
    \A t \in Threads :
       /\ WF_vars(StepOutsideDriver(t))
       /\ []<>~InDriverCall(t) \/ []<><<ReturnFromDriver(t)>>_vars

SpecThreadsFair == SpecThreads /\ FairThreads

------------------------------------------------------------------------------
(* Properties *)

\* the GPUTask that is alive: inside the builder, or finalized and held by the caller
LiveTask == IF IsSome(builder) THEN Unwrap(builder).task ELSE task
HasTask == IsSome(LiveTask)
TheTask == Unwrap(LiveTask)
TaskStream == vk.command_buffers[TheTask.command_buffer].cmds
BuilderFailed == IsSome(builder) /\ IsSome(Unwrap(builder).errno)
BoundIds == {acquired.bindings[i].id : i \in 1..Len(acquired.bindings)}

\* C1: every buffer allocated by a successful new_task is freed exactly once: after
\* the task's teardown none of them is still allocated, and nothing was freed or
\* destroyed twice.
C1_BuffersFreedExactlyOnce ==
    /\ phase = "dropped" =>
          /\ acquired.allocations \cap vk.allocations = {}
          /\ acquired.buffers \cap DOMAIN vk.buffers = {}
    /\ vk.misuse = {}

\* C2: after new_task has returned a failed builder, nothing that call acquired is
\* still live: no buffer object, memory region, descriptor pool, descriptor set or
\* command buffer.
C2_FailedNewTaskReleasesAll ==
    BuilderFailed =>
       /\ acquired.buffers \cap DOMAIN vk.buffers = {}
       /\ acquired.allocations \cap vk.allocations = {}
       /\ acquired.descriptor_pools \cap DOMAIN vk.descriptor_pools = {}
       /\ acquired.descriptor_sets \cap DOMAIN vk.descriptor_sets = {}
       /\ acquired.command_buffers \cap DOMAIN vk.command_buffers = {}

\* C3: on a failed builder every op_* call leaves the builder, the driver state
\* (command streams, mapped memory) and the tensors as they are, and finalize
\* returns Err with the kind the builder stores.
C3_FailedBuilderCallsAreNoOps ==
    [][BuilderFailed =>
         /\ (ncalls' = ncalls + 1 => builder' = builder /\ vk' = vk /\ tensors' = tensors)
         /\ (result' # result => result' = [ok |-> None, err |-> Unwrap(builder).errno])]_vars

C3_Witness ==
    /\ phase = "failed"
    /\ ncalls = 2
    /\ result.err = Some("BufferAllocationFailure")

\* C4: a builder holds exactly one of a stored error and a task; finalize returns
\* Ok exactly when no acquisition step of new_task failed, Err otherwise, and never
\* UnknownError.
C4_ExactlyOneOfErrorAndTask ==
    /\ IsSome(builder) =>
          (IsSome(Unwrap(builder).errno) <=> IsNone(Unwrap(builder).task))
    /\ result # NoResult =>
          /\ IsSome(result.ok) <=> IsNone(result.err)
          /\ IsSome(result.ok) <=> acquired.fault = NoFault
          /\ result.err # Some("UnknownError")

C4_Witness ==
    /\ phase = "task"
    /\ IsSome(result.ok)
    /\ Len(history) = 2

\* C5: in a task, a backing entry exists for a tensor id iff that tensor was in the
\* bindings list, and the backing of a bound tensor has a readback buffer iff the
\* tensor's readback_enabled flag is set.
C5_BackingIffBound ==
    HasTask =>
       /\ DOMAIN TheTask.buffers = BoundIds
       /\ \A i \in 1..Len(acquired.bindings) :
             IsSome(TheTask.buffers[acquired.bindings[i].id].readback_buffer)
                <=> acquired.bindings[i].readback_enabled
       /\ \A i \in 1..Len(tensors) :
             tensors[i].id \in DOMAIN TheTask.buffers
                <=> \E j \in 1..Len(acquired.bindings) :
                       acquired.bindings[j].id = tensors[i].id

C5_Witness ==
    /\ HasTask
    /\ Len(tensors) = 2
    /\ Len(acquired.bindings) = 1
    /\ \E i \in 1..2 : tensors[i].readback_enabled
    /\ \E i \in 1..2 : ~tensors[i].readback_enabled

\* C6: after a successful new_task the backing map has one entry per distinct
\* tensor id of the bindings list, and every entry holds a live device-local
\* buffer and a live staging buffer, each with live memory.
C6_OneBackingPerDistinctId ==
    (phase = "recording" /\ ~BuilderFailed) =>
       /\ Cardinality(DOMAIN TheTask.buffers) = Cardinality(BoundIds)
       /\ \A id \in DOMAIN TheTask.buffers :
             LET backing == TheTask.buffers[id]
             IN /\ backing.gpu_buffer.buffer \in DOMAIN vk.buffers
                /\ backing.gpu_buffer.allocation.id \in vk.allocations
                /\ backing.staging_buffer.buffer \in DOMAIN vk.buffers
                /\ backing.staging_buffer.allocation.id \in vk.allocations
                /\ backing.staging_buffer.buffer # backing.gpu_buffer.buffer

C6_Witness ==
    /\ phase = "recording"
    /\ ~BuilderFailed
    /\ Len(acquired.bindings) = 2
    /\ Cardinality(BoundIds) = 1

\* the commands the logged calls recorded, in call order
RECURSIVE Concat(_)
Concat(log) == IF log = <<>> THEN <<>> ELSE Head(log).recorded \o Concat(Tail(log))

\* the positions of the task's stream that the k-th logged call recorded
First(k) == 2 + Len(Concat(SubSeq(history, 1, k - 1))) + 1
Last(k) == 2 + Len(Concat(SubSeq(history, 1, k)))

\* C7: a task's command stream is the two bind commands followed by what each
\* logged call recorded, in call order; a dispatch comes after the
\* transfer-to-compute barrier of every earlier op_local_sync_device call, and a
\* device-to-readback copy comes after a compute-to-transfer barrier that follows
\* every earlier dispatch.
C7_StreamInCallOrder ==
    HasTask =>
       /\ TaskStream = SubSeq(TaskStream, 1, 2) \o Concat(history)
       /\ Len(TaskStream) = 2 + Len(Concat(history))
       /\ \A i, j \in 1..Len(history) :
             (i < j /\ history[i].op = "op_local_sync_device"
                    /\ history[j].op = "op_pipeline_dispatch") =>
                \E p \in First(i)..Last(i), q \in First(j)..Last(j) :
                   /\ TaskStream[p] = TransferToComputeBarrier
                   /\ TaskStream[q].cmd = "dispatch"
                   /\ p < q
                   /\ \A r \in First(i)..Last(i) :
                         TaskStream[r].cmd = "copy_buffer" => r < p
       /\ \A i, j \in 1..Len(history) :
             (i < j /\ history[i].op = "op_pipeline_dispatch"
                    /\ history[j].op = "op_device_sync_local") =>
                \A q \in First(j)..Last(j) :
                   TaskStream[q].cmd = "copy_buffer" =>
                      \E p \in First(j)..Last(j) :
                         /\ TaskStream[p] = ComputeToTransferBarrier
                         /\ Last(i) < p
                         /\ p < q

C7_Witness ==
    /\ HasTask
    /\ Len(history) = 2
    /\ history[1].op = "op_pipeline_dispatch"
    /\ history[2].op = "op_device_sync_local"
    /\ Len(history[2].recorded) = 3
    /\ Len(TaskStream) = 6

\* the tensors of a list that have a backing in the task, in list order
RECURSIVE Backed(_)
Backed(list) ==
    IF list = <<>> THEN <<>>
    ELSE IF Head(list).id \in DOMAIN TheTask.buffers
    THEN <<Head(list)>> \o Backed(Tail(list))
    ELSE Backed(Tail(list))

LastRecorded == history[Len(history)].recorded

\* C8: an op_local_sync_device call on an ok builder records one staging-to-device
\* copy for each listed tensor that has a backing, in list order, and then exactly
\* one transfer-to-compute-shader barrier as its last command.
C8_CopiesThenOneBarrier ==
    (phase = "recording" /\ last_call.op = "op_local_sync_device") =>
       LET copies == Backed(last_call.tensors)
           n == Len(LastRecorded)
       IN /\ n = Len(copies) + 1
          /\ LastRecorded[n] = TransferToComputeBarrier
          /\ \A k \in 1..(n - 1) :
                /\ LastRecorded[k].cmd = "copy_buffer"
                /\ LastRecorded[k].a = TheTask.buffers[copies[k].id].staging_buffer.buffer
                /\ LastRecorded[k].b = TheTask.buffers[copies[k].id].gpu_buffer.buffer
          /\ Cardinality({k \in 1..n : LastRecorded[k].cmd = "pipeline_barrier"}) = 1

C8_Witness ==
    /\ phase = "recording"
    /\ last_call.op = "op_local_sync_device"
    /\ Len(last_call.tensors) = 2
    /\ Len(LastRecorded) = 2

\* C9: an op_device_sync_local call on an ok builder records exactly one
\* compute-shader-to-transfer barrier, as its first command, and then only
\* device-to-readback copies, for each tensor no more than the list names it.
C9_OneBarrierThenCopies ==
    (phase = "recording" /\ last_call.op = "op_device_sync_local") =>
       LET n == Len(LastRecorded)
       IN /\ n >= 1
          /\ LastRecorded[1] = ComputeToTransferBarrier
          /\ \A k \in 2..n : LastRecorded[k].cmd = "copy_buffer"
          /\ n - 1 <= Len(last_call.tensors)
          /\ \A id \in DOMAIN TheTask.buffers :
                Cardinality({k \in 2..n :
                                LastRecorded[k].a = TheTask.buffers[id].gpu_buffer.buffer})
                   <= Cardinality({i \in 1..Len(last_call.tensors) :
                                      last_call.tensors[i].id = id})
          /\ \A k \in 2..n :
                \E id \in DOMAIN TheTask.buffers :
                   /\ IsSome(TheTask.buffers[id].readback_buffer)
                   /\ LastRecorded[k].a = TheTask.buffers[id].gpu_buffer.buffer
                   /\ LastRecorded[k].b = Unwrap(TheTask.buffers[id].readback_buffer).buffer

C9_Witness ==
    /\ phase = "recording"
    /\ last_call.op = "op_device_sync_local"
    /\ Len(last_call.tensors) = 2
    /\ last_call.tensors[1] # last_call.tensors[2]
    /\ Len(LastRecorded) = 2

\* C10: the stream of a successfully constructed task starts with bind-pipeline
\* and bind-descriptor-set, recorded into a command buffer whose recording had
\* begun, and everything the op_* calls record comes after them.
C10_BindsFirst ==
    HasTask =>
       /\ Len(TaskStream) >= 2
       /\ TaskStream[1] = CmdBindPipeline(Unwrap(pipeline).pipeline)
       /\ TaskStream[2] = CmdBindDescriptorSets(Unwrap(pipeline).pipeline_layout,
                                                TheTask.descriptor_set)
       /\ <<"record", TheTask.command_buffer>> \notin vk.misuse
       /\ (ncalls = 0 => Len(TaskStream) = 2)
       /\ \A k \in 1..Len(history) : First(k) > 2
       /\ Len(TaskStream) = 2 + Len(Concat(history))

C10_Witness ==
    /\ HasTask
    /\ Len(history) = 2
    /\ Len(TaskStream) > 3

\* the copies among the commands of one call that read from a buffer
CopiesFrom(recorded, buffer) ==
    {k \in 1..Len(recorded) : recorded[k].cmd = "copy_buffer" /\ recorded[k].a = buffer}

\* the positions of a tensor list that name a tensor id
Occurrences(list, id) == {i \in 1..Len(list) : list[i].id = id}

\* C11: op_device_sync_local with a bound tensor T whose readback is disabled in
\* its list records no copy for T and does not fail the task: the builder stays
\* ok, finalize returns its task, and every other listed tensor that has a
\* readback buffer still gets its copy, once per occurrence in the list.
C11_NoReadbackIsSkippedNotFailed ==
    (phase = "recording" /\ last_call.op = "op_device_sync_local"
       /\ \E i \in 1..Len(last_call.tensors) :
             /\ last_call.tensors[i].id \in DOMAIN TheTask.buffers
             /\ ~last_call.tensors[i].readback_enabled) =>
       /\ IsNone(Unwrap(builder).errno)
       /\ IsSome(Unwrap(builder).task)
       /\ finalize(Unwrap(builder)) = [ok |-> Unwrap(builder).task, err |-> None]
       /\ \A i \in 1..Len(last_call.tensors) :
             LET T == last_call.tensors[i]
             IN T.id \in DOMAIN TheTask.buffers =>
                   LET backing == TheTask.buffers[T.id]
                       copies == CopiesFrom(LastRecorded, backing.gpu_buffer.buffer)
                   IN IF T.readback_enabled
                      THEN /\ Cardinality(copies)
                                 = Cardinality(Occurrences(last_call.tensors, T.id))
                           /\ \A k \in copies :
                                 /\ LastRecorded[k].b = Unwrap(backing.readback_buffer).buffer
                                 /\ LastRecorded[k].size = Len(T.local_data) * 4
                      ELSE /\ copies = {}
                           /\ IsNone(backing.readback_buffer)

C11_Witness ==
    /\ phase = "recording"
    /\ last_call.op = "op_device_sync_local"
    /\ Len(last_call.tensors) = 2
    /\ ~last_call.tensors[1].readback_enabled
    /\ last_call.tensors[2].readback_enabled
    /\ \A i \in 1..2 : last_call.tensors[i].id \in DOMAIN TheTask.buffers
    /\ Len(LastRecorded) = 2

\* the device-to-readback copies due for a tensor list, in list order: one per
\* listed tensor that has a backing with a readback buffer
RECURSIVE ReadbackCopies(_)
ReadbackCopies(list) ==
    IF list = <<>> THEN <<>>
    ELSE IF Head(list).id \in DOMAIN TheTask.buffers
            /\ IsSome(TheTask.buffers[Head(list).id].readback_buffer)
    THEN <<CmdCopyBuffer(TheTask.buffers[Head(list).id].gpu_buffer.buffer,
                         Unwrap(TheTask.buffers[Head(list).id].readback_buffer).buffer,
                         Len(Head(list).local_data) * 4)>>
         \o ReadbackCopies(Tail(list))
    ELSE ReadbackCopies(Tail(list))

\* C12: op_device_sync_local given a tensor without a backing in the task does
\* not abort: it records no copy for that tensor, records the copies of the
\* remaining tensors of the list, before and after it, and leaves the builder ok.
C12_UnbackedTensorIsSkipped ==
    (phase = "recording" /\ last_call.op = "op_device_sync_local"
       /\ \E i \in 1..Len(last_call.tensors) :
             last_call.tensors[i].id \notin DOMAIN TheTask.buffers) =>
       /\ IsNone(Unwrap(builder).errno)
       /\ IsSome(Unwrap(builder).task)
       /\ LastRecorded = <<ComputeToTransferBarrier>> \o ReadbackCopies(last_call.tensors)
       /\ \A k \in 1..Len(LastRecorded) :
             LastRecorded[k].cmd = "copy_buffer" =>
                \E id \in DOMAIN TheTask.buffers :
                   LastRecorded[k].a = TheTask.buffers[id].gpu_buffer.buffer

C12_Witness ==
    /\ phase = "recording"
    /\ last_call.op = "op_device_sync_local"
    /\ Len(last_call.tensors) = 2
    /\ last_call.tensors[1].id \notin DOMAIN TheTask.buffers
    /\ last_call.tensors[2].id \in DOMAIN TheTask.buffers
    /\ Len(LastRecorded) = 2

\* the entries of the log of the last await_task call that have a kind
AwaitEvents(ev) == {k \in 1..Len(last_await.log) : last_await.log[k].ev = ev}

\* C13: await_task copies nothing out of a readback buffer before the fence of
\* its handle has been signaled, whatever the wait call returned, and it destroys
\* the fence after the wait and before the first copy.
C13_NoCopyBeforeFenceSignaled ==
    last_await.called =>
       /\ \A k \in AwaitEvents("copy") : last_await.log[k].signaled
       /\ last_await.log[1].ev = "wait_for_fences"
       /\ last_await.log[2].ev = "destroy_fence"
       /\ \A k \in AwaitEvents("copy") : k > 2

C15_ExecTaskNoneIffSubmitFails ==
    last_exec.called =>
       /\ IsNone(last_exec.returned) <=> last_exec.fault \in SubmitFaults
       /\ IsNone(last_exec.returned) => last_exec.submitted = <<>>
       /\ IsSome(last_exec.returned) =>
             /\ sync = last_exec.returned
             /\ last_exec.submitted =
                   <<[command_buffer |-> Unwrap(task).command_buffer,
                      fence |-> Unwrap(sync).fence]>>
             /\ Unwrap(sync).parent = Unwrap(task)
             /\ Unwrap(sync).fence # 0

C15_Witness ==
    /\ last_exec.called
    /\ phase = "submitted"
    /\ IsSome(sync)
    /\ Len(last_exec.submitted) = 1
    /\ Unwrap(sync).fence \in DOMAIN vk.fences

\* C18: allocate_buffer is atomic for its caller: a call that returns an error
\* leaves nothing it created live, neither the buffer object nor the memory it
\* sub-allocated.
C18_FailedAllocateBufferLeavesNothing ==
    \A k \in 1..Len(acquired.allocs) :
       acquired.allocs[k].res # "Ok" =>
          /\ acquired.allocs[k].buffers = {}
          /\ acquired.allocs[k].allocations = {}

\* C19: allocate_buffer returns BufferCreationFailure iff create_buffer fails,
\* MemoryAllocationError iff create_buffer succeeds and the sub-allocation fails,
\* MemoryBindFailure iff both succeed and the bind fails, and Ok(buffer) only
\* when all three calls succeed; the buffer of an Ok has the size asked for.
C19_OneKindPerFailingStep ==
    \A k \in 1..Len(acquired.allocs) :
       LET c == acquired.allocs[k]
       IN /\ c.res \in AllocationError \cup {"Ok"}
          /\ c.res = "BufferCreationFailure" <=> c.failing = "create_buffer"
          /\ c.res = "MemoryAllocationError" <=> c.failing = "allocate"
          /\ c.res = "MemoryBindFailure" <=> c.failing = "bind_buffer_memory"
          /\ c.res = "Ok" <=> c.failing = "none"
          /\ c.res = "BufferCreationFailure" => c.calls = <<"create_buffer">>
          /\ c.res = "MemoryAllocationError" => c.calls = <<"create_buffer", "allocate">>
          /\ c.res \in {"MemoryBindFailure", "Ok"} =>
                c.calls = <<"create_buffer", "allocate", "bind_buffer_memory">>
          /\ IsSome(c.buffer) <=> c.res = "Ok"
          /\ c.res = "Ok" =>
                /\ c.buffers = {Unwrap(c.buffer).buffer}
                /\ c.allocations = {Unwrap(c.buffer).allocation.id}
                /\ Unwrap(c.buffer).allocation.size = c.size

C19_Witness ==
    /\ Len(acquired.allocs) = 3
    /\ acquired.allocs[1].res = "Ok"
    /\ acquired.allocs[2].res = "Ok"
    /\ acquired.allocs[3].res = "MemoryBindFailure"

\* the acquisition steps of a new_task call in which nothing fails
RECURSIVE BufferSteps(_)
BufferSteps(bindings) ==
    IF bindings = <<>> THEN <<>>
    ELSE <<"allocator.write", "allocate_buffer", "allocate_buffer">>
         \o (IF Head(bindings).readback_enabled THEN <<"allocate_buffer">> ELSE <<>>)
         \o BufferSteps(Tail(bindings))

AllSteps(bindings) ==
    BufferSteps(bindings)
    \o <<"create_descriptor_pool", "allocate_descriptor_sets", "allocate_command_buffer",
         "begin_command_buffer">>

\* the kind new_task is to report when a step fails
KindOfStep(step) ==
    CASE step \in {"allocator.write", "allocate_buffer"} -> "BufferAllocationFailure"
      [] step \in {"create_descriptor_pool", "allocate_descriptor_sets"} ->
            "DescriptorSetAllocationFailure"
      [] step = "allocate_command_buffer" -> "CommandBufferAllocationFailure"
      [] step = "begin_command_buffer" -> "CommandBufferRecordingStartFailure"

\* the step a fault makes fail
StepOfFault(fault) ==
    CASE fault.step = "buffer" -> "allocate_buffer"
      [] fault.step = "descriptor_pool" -> "create_descriptor_pool"
      [] fault.step = "descriptor_set" -> "allocate_descriptor_sets"
      [] fault.step = "command_buffer" -> "allocate_command_buffer"
      [] fault.step = "begin" -> "begin_command_buffer"

\* C20: new_task takes its acquisition steps in the order buffers, descriptor
\* pool, descriptor set, command buffer, begin-recording; the step that fails is
\* the last one it takes, nothing of a later step is acquired, and the builder it
\* returns stores the kind that belongs to the failing step.
C20_FirstFailureWins ==
    IsSome(builder) =>
       LET steps == acquired.steps
           n == Len(steps)
           all == AllSteps(acquired.bindings)
       IN /\ n <= Len(all)
          /\ steps = SubSeq(all, 1, n)
          /\ acquired.fault = NoFault =>
                /\ steps = all
                /\ ~BuilderFailed
          /\ acquired.fault # NoFault =>
                /\ BuilderFailed
                /\ n >= 1
                /\ steps[n] = StepOfFault(acquired.fault)
                /\ Unwrap(builder).errno = Some(KindOfStep(steps[n]))
                /\ acquired.fault.step = "buffer" =>
                      /\ Len(acquired.allocs) = acquired.fault.n
                      /\ acquired.descriptor_pools = {}
                /\ acquired.fault.step \in {"buffer", "descriptor_pool", "descriptor_set"} =>
                      acquired.descriptor_sets = {}
                /\ acquired.fault.step # "begin" => acquired.command_buffers = {}
                /\ \A cb \in acquired.command_buffers :
                      vk.command_buffers[cb].cmds = <<>>

C20_Witness ==
    /\ BuilderFailed
    /\ Len(acquired.bindings) = 2
    /\ acquired.fault.step = "descriptor_set"
    /\ Unwrap(builder).errno = Some("DescriptorSetAllocationFailure")
    /\ Len(acquired.steps) >= 8

\* C16: with the threads constructing and tearing down tasks concurrently, no
\* two allocator operations overlap: at most one thread is inside allocate_buffer
\* or the frees of a teardown, and that thread holds the allocator's write lock.
C16_AllocatorOperationsSerialized ==
    /\ Cardinality(busy) <= 1
    /\ \A t \in busy : allocator.writer = t
    /\ \A t \in Threads :
          threads[t].pc \in {"allocating", "freeing"} <=> t \in busy

C16_Witness ==
    /\ busy = {1}
    /\ threads[1].pc = "freeing"
    /\ threads[2].pc = "loop"
    /\ threads[2].i = 1
    /\ allocator.writer = 1

\* the threads whose create_tensor call has done its fetch_add
Fetched == {t \in Threads : threads[t].pc # "start"}

\* the tensors the threads hold
Held == {t \in Threads : IsSome(threads[t].tensor)}

\* the ids handed out so far are pairwise distinct and are exactly 0..n-1 after
\* n fetch_add steps; a tensor carries the id its thread fetched
UniqueIds ==
    /\ \A t, u \in Held :
          t # u => Unwrap(threads[t].tensor).id # Unwrap(threads[u].tensor).id
    /\ \A t, u \in Fetched : t # u => threads[t].id # threads[u].id
    /\ {threads[t].id : t \in Fetched} = {FromNat(n) : n \in 0..(Cardinality(Fetched) - 1)}
    /\ current_tensor_id = FromNat(Cardinality(Fetched))
    /\ \A t \in Held : Unwrap(threads[t].tensor).id = threads[t].id

\* C17: over every interleaving of the create_tensor calls of the threads, no
\* two tensors get the same id, the ids handed out after n calls are exactly
\* 0..n-1, and creating a tensor never changes the id of an existing tensor.
C17_TensorIdsUnique ==
    /\ []UniqueIds
    /\ [][\A t \in Held :
             /\ IsSome(threads'[t].tensor)
             /\ Unwrap(threads'[t].tensor).id = Unwrap(threads[t].tensor).id]_vars

C17_Witness ==
    /\ Held = {1}
    /\ Unwrap(threads[1].tensor).id = FromNat(1)
    /\ threads[2].pc = "fetched"
    /\ threads[2].id = FromNat(0)
    /\ current_tensor_id = FromNat(2)

\* C21: the descriptor set of every task is allocated from the descriptor pool
\* owned by the pipeline the task was built from (so that the pool's capacity
\* bounds the number of open tasks of one pipeline).
C21_SetFromPipelinePool ==
    (HasTask /\ IsSome(pipeline)) =>
       vk.descriptor_sets[TheTask.descriptor_set].pool = Unwrap(pipeline).descriptor_pool

\* C22: after a successful new_task, descriptor binding i of the task's set
\* refers to the device-local buffer of the backing stored for bindings[i], at
\* offset 0 and with range 4 x the element count of that tensor; positions that
\* hold distinct tensors refer to distinct buffers.
C22_DescriptorWritesFollowBindings ==
    HasTask =>
       LET writes == vk.descriptor_sets[TheTask.descriptor_set].writes
           b == acquired.bindings
       IN /\ Len(writes) = Len(b)
          /\ \A i \in 1..Len(b) :
                /\ writes[i].buffer = TheTask.buffers[b[i].id].gpu_buffer.buffer
                /\ writes[i].buffer \in DOMAIN vk.buffers
                /\ writes[i].offset = 0
                /\ writes[i].range = 4 * Len(b[i].local_data)
          /\ \A i, j \in 1..Len(b) :
                b[i].id # b[j].id => writes[i].buffer # writes[j].buffer

C22_Witness ==
    /\ HasTask
    /\ Len(acquired.bindings) = 2
    /\ acquired.bindings[1].id # acquired.bindings[2].id
    /\ Len(vk.descriptor_sets[TheTask.descriptor_set].writes) = 2

\* the names of the calls of a teardown log, in order
CallNames(calls) == [i \in 1..Len(calls) |-> calls[i].call]

\* C23: destroying a pipeline releases its four objects in this order: the
\* compute pipeline, the pipeline layout, the descriptor-set layout, the
\* descriptor pool.
C23_PipelineReleasedInDependencyOrder ==
    teardown.pipeline # <<>> =>
       CallNames(teardown.pipeline) =
          <<"destroy_pipeline", "destroy_pipeline_layout",
            "destroy_descriptor_set_layout", "destroy_descriptor_pool">>

\* the allocation ids a teardown run handed to the allocator's free
FreedBy(calls) == {calls[i].arg : i \in {k \in 1..Len(calls) : calls[k].call = "free"}}

\* what a teardown run released besides memory: <<call, handle>> pairs
ReleasedBy(calls) ==
    {<<calls[i].call, calls[i].arg>> : i \in {k \in 1..Len(calls) : calls[k].call # "free"}}

\* C24: when the teardown of a task runs twice, no memory region is freed twice:
\* the first run takes every allocation out of its backing, so the second run
\* hands only empty placeholders to the allocator's free.
C24_SecondTeardownFreesNoMemory ==
    Len(teardown.runs) = 2 =>
       /\ FreedBy(teardown.runs[2]) \subseteq {NullAllocation.id}
       /\ FreedBy(teardown.runs[1]) \cap FreedBy(teardown.runs[2]) = {}
       /\ \A b \in DOMAIN Unwrap(teardown.left).buffers :
             LET backing == Unwrap(teardown.left).buffers[b]
             IN /\ backing.gpu_buffer.allocation = NullAllocation
                /\ backing.staging_buffer.allocation = NullAllocation
                /\ IsSome(backing.readback_buffer) =>
                      Unwrap(backing.readback_buffer).allocation = NullAllocation
       /\ ~ \E m \in vk.misuse : m[1] = "free"

C24_Witness ==
    /\ Len(teardown.runs) = 2
    /\ Cardinality(FreedBy(teardown.runs[1])) = 5
    /\ Len(SelectSeq(teardown.runs[2], LAMBDA c : c.call = "free")) = 5

\* C25: a second run of a task's teardown is a complete no-op: it destroys no
\* buffer object, frees no command buffer and resets or destroys no descriptor
\* pool that the first run already released.
C25_SecondTeardownIsNoOp ==
    Len(teardown.runs) = 2 =>
       ReleasedBy(teardown.runs[1]) \cap ReleasedBy(teardown.runs[2]) = {}

\* C26: a task is never torn down while work submitted from it is in flight: as
\* long as a submission of its command buffer has not completed, the command
\* buffer, the descriptor pool and the buffers of the task are live.
C26_NoTeardownWhileInFlight ==
    \A i \in 1..Len(vk.queue) :
       LET cb == vk.queue[i].command_buffer
       IN /\ cb \in DOMAIN vk.command_buffers
          /\ \A k \in 1..Len(vk.command_buffers[cb].cmds) :
                LET c == vk.command_buffers[cb].cmds[k]
                IN /\ c.cmd = "bind_descriptor_sets" => c.b \in DOMAIN vk.descriptor_sets
                   /\ c.cmd = "copy_buffer" => {c.a, c.b} \subseteq DOMAIN vk.buffers

\* C27: a task is submitted at most once: once an exec_task call has ended the
\* command buffer of a task, every further exec_task call on that task returns
\* None, does not end the command buffer again and submits nothing.
C27_SecondExecIsRejected ==
    (last_exec.called /\ last_exec.ended) =>
       /\ IsNone(last_exec.returned)
       /\ last_exec.submitted = <<>>
       /\ <<"end_command_buffer", Unwrap(task).command_buffer>> \notin vk.misuse

\* C28: every fence exec_task creates is destroyed exactly once: no fence is
\* destroyed twice or waited on after it was destroyed, and no fence is left
\* once the caller holds no handle any more.
C28_FenceDestroyedExactlyOnce ==
    /\ ~ \E m \in vk.misuse : m[1] \in {"destroy_fence", "wait_for_fences"}
    /\ IsNone(sync) => DOMAIN vk.fences = {}

\* the shader of the pipeline the caller holds
PipelineShader == vk.shaders[Unwrap(pipeline).pipeline]

\* the backing of the caller's k-th tensor in the finalized task
BackingOf(k) == Unwrap(task).buffers[tensors[k].id]

\* history[n] recorded the upload (staging to device-local) of the k-th tensor
Uploads(n, k) ==
    \E c \in 1..Len(history[n].recorded) :
       history[n].recorded[c] =
          CmdCopyBuffer(BackingOf(k).staging_buffer.buffer, BackingOf(k).gpu_buffer.buffer,
                        4 * Len(last_await.before[k].local_data))

\* history[n] recorded the download (device-local to readback) of the k-th tensor
Downloads(n, k) ==
    /\ IsSome(BackingOf(k).readback_buffer)
    /\ \E c \in 1..Len(history[n].recorded) :
          history[n].recorded[c] =
             CmdCopyBuffer(BackingOf(k).gpu_buffer.buffer,
                           Unwrap(BackingOf(k).readback_buffer).buffer,
                           4 * Len(last_await.before[k].local_data))

\* the task recorded an upload call, a dispatch and a download call, was executed
\* to completion and awaited with success
UploadDispatchDownloadAwaited ==
    /\ phase = "awaited"
    /\ last_await.wait = "SUCCESS"
    /\ Len(history) = 3
    /\ history[1].op = "op_local_sync_device"
    /\ history[2].op = "op_pipeline_dispatch"
    /\ history[3].op = "op_device_sync_local"

\* the k-th tensor has readback enabled, was uploaded, downloaded and synced
RoundTripOf(k) ==
    /\ UploadDispatchDownloadAwaited
    /\ last_await.before[k].readback_enabled
    /\ Uploads(1, k)
    /\ Downloads(3, k)
    /\ \E i \in 1..Len(last_await.sync_tensors) : last_await.sync_tensors[i] = k

\* C29: round trip: a tensor with readback enabled that a task uploads and, after
\* the dispatch of an identity shader, downloads has, once the task is executed
\* and awaited with the tensor in the sync list, the data it had before.
C29_IdentityRoundTrip ==
    \A k \in 1..Len(tensors) :
       (RoundTripOf(k) /\ PipelineShader = "identity") =>
          tensors[k].local_data = last_await.before[k].local_data

C29_Witness ==
    /\ Len(tensors) = 2
    /\ RoundTripOf(2)
    /\ PipelineShader = "identity"
    /\ tensors[2].local_data = <<5, 4, 3, 2, 1>>
    /\ vk.memory[BackingOf(2).gpu_buffer.buffer] = <<5, 4, 3, 2, 1>>

\* the scenario of main: tensor_in = [1,2,3,4,5] without readback, tensor_out
\* with readback, both uploaded, the squaring shader dispatched, tensor_out
\* downloaded and awaited
MainScenario ==
    /\ Len(tensors) = 2
    /\ UploadDispatchDownloadAwaited
    /\ PipelineShader = "square"
    /\ last_await.before[1].local_data = <<1, 2, 3, 4, 5>>
    /\ ~ last_await.before[1].readback_enabled
    /\ Uploads(1, 1)
    /\ Uploads(1, 2)
    /\ Len(history[1].recorded) = 3
    /\ Downloads(3, 2)
    /\ Len(history[3].recorded) = 2
    /\ last_await.sync_tensors = <<2>>

\* C30: the scenario of main ends with tensor_out.data = [1,4,9,16,25] and
\* tensor_in.data unchanged, whatever tensor_out held before.
C30_MainComputesSquares ==
    MainScenario =>
       /\ tensors[2].local_data = <<1, 4, 9, 16, 25>>
       /\ tensors[1].local_data = <<1, 2, 3, 4, 5>>

C30_Witness ==
    /\ MainScenario
    /\ last_await.before[2].local_data = <<5, 4, 3, 2, 1>>
    /\ tensors[2].local_data = <<1, 4, 9, 16, 25>>

\* b is a + 1 modulo 2^32
Follows(a, b) ==
    \/ a.lo < HALF - 1 /\ b = U32(a.hi, a.lo + 1)
    \/ a.lo = HALF - 1 /\ a.hi < HALF - 1 /\ b = U32(a.hi + 1, 0)
    \/ a = U32_MAX /\ b = FromNat(0)

IsU32(v) == v.hi \in 0..(HALF - 1) /\ v.lo \in 0..(HALF - 1)

\* C31: the tensor id counter is a 32-bit counter that wraps modulo 2^32 without
\* error: every create_tensor call returns the value of the counter and leaves
\* the counter one higher modulo 2^32, so the call made at 2^32 - 1 returns
\* 2^32 - 1 and the next one returns 0; the ids of fewer than 2^32 consecutive
\* calls are pairwise distinct.
C31_CounterWraps ==
    /\ IsU32(current_tensor_id)
    /\ \A i \in 1..Len(tensors) : IsU32(tensors[i].id)
    /\ \A i \in 1..(Len(tensors) - 1) : Follows(tensors[i].id, tensors[i + 1].id)
    /\ Len(tensors) > 0 => Follows(tensors[Len(tensors)].id, current_tensor_id)
    /\ \A i \in 1..(Len(tensors) - 1) :
          tensors[i].id = U32_MAX => tensors[i + 1].id = FromNat(0)
    /\ \A i, j \in 1..Len(tensors) : i # j => tensors[i].id # tensors[j].id

C31_Witness ==
    /\ Len(tensors) = 2
    /\ tensors[1].id = U32_MAX
    /\ tensors[2].id = FromNat(0)
    /\ current_tensor_id = FromNat(1)
    /\ HasTask
    /\ DOMAIN TheTask.buffers = {U32_MAX, FromNat(0)}

\* the release calls of one teardown run are in the order of the claim
InTeardownOrder(calls) ==
    /\ Len(calls) >= 3
    /\ CallNames(SubSeq(calls, 1, 3)) =
          <<"free_command_buffers", "reset_descriptor_pool", "destroy_descriptor_pool">>
    /\ calls[2].arg = calls[3].arg
    /\ \A i \in 4..Len(calls) :
          /\ calls[i].call \in {"free", "destroy_buffer"}
          /\ calls[i].call = "destroy_buffer" => calls[i - 1].call = "free"
          /\ calls[i].call = "free" => i < Len(calls) /\ calls[i + 1].call = "destroy_buffer"

\* C32: the teardown of a task releases in a fixed order: the command buffer is
\* freed first, then the descriptor pool is reset and destroyed, and only then
\* buffer memory is freed; the memory of each buffer is freed right before its
\* buffer object is destroyed.
C32_TeardownOrder ==
    /\ \A n \in 1..Len(teardown.runs) : InTeardownOrder(teardown.runs[n])
    /\ Len(teardown.runs) > 0 =>
          LET calls == teardown.runs[1]
          IN /\ \A i \in 4..Len(calls) :
                   calls[i].call = "destroy_buffer" => calls[i - 1].arg = calls[i].arg
             /\ {calls[i].arg : i \in 4..Len(calls)} \subseteq acquired.buffers

C32_Witness ==
    /\ Len(teardown.runs) = 1
    /\ Len(teardown.runs[1]) = 13
    /\ Cardinality(acquired.buffers) = 5

\* the handles of the manager the caller's values hold
Handles ==
    (IF manager.held THEN 1 ELSE 0) + (IF IsSome(pipeline) THEN 1 ELSE 0)
       + (IF HasTask THEN 1 ELSE 0)

OwnersOutliveManager ==
    /\ manager.strong = Handles
    /\ manager.destroyed => Handles = 0

\* C33: the ComputeManager is torn down only after every Task and every Pipeline
\* created from it has been torn down, each holding a handle of the manager; for
\* every order in which the caller drops its handles, no teardown of a Task or a
\* Pipeline runs once the manager was torn down.
C33_ManagerOutlivesTasksAndPipelines ==
    /\ []OwnersOutliveManager
    /\ [][teardown' # teardown => ~manager.destroyed]_vars

C33_Witness ==
    /\ manager.destroyed
    /\ phase = "dropped"
    /\ IsSome(result.ok)
    /\ Len(teardown.runs) = 1
    /\ teardown.pipeline # <<>>

\* the allocation ids of the staging buffers of a task
StagingOf(t) == {t.buffers[id].staging_buffer.allocation.id : id \in DOMAIN t.buffers}

\* an op_* call on an ok builder
OkOpCall == phase = "recording" /\ ~BuilderFailed /\ ncalls' = ncalls + 1

\* C34: an op_* call on an ok builder returns the builder as it was, still ok and
\* with the same backing map, descriptor set, descriptor pool and command buffer;
\* in the driver only the command stream of that command buffer (which stays in
\* the recording state and is only extended) and the contents of the task's
\* staging buffers change.
C34_OpsKeepBuilderOk ==
    [][OkOpCall =>
         LET t == TheTask
             cb == t.command_buffer
         IN /\ builder' = builder
            /\ IsNone(Unwrap(builder').errno) /\ IsSome(Unwrap(builder').task)
            /\ IsSome(finalize(Unwrap(builder')).ok)
            /\ [vk' EXCEPT !.command_buffers = vk.command_buffers, !.memory = vk.memory] = vk
            /\ DOMAIN vk'.command_buffers = DOMAIN vk.command_buffers
            /\ \A c \in DOMAIN vk.command_buffers \ {cb} :
                  vk'.command_buffers[c] = vk.command_buffers[c]
            /\ vk'.command_buffers[cb].state = "recording"
            /\ Len(vk'.command_buffers[cb].cmds) >= Len(vk.command_buffers[cb].cmds)
            /\ SubSeq(vk'.command_buffers[cb].cmds, 1, Len(vk.command_buffers[cb].cmds))
                  = vk.command_buffers[cb].cmds
            /\ DOMAIN vk'.memory = DOMAIN vk.memory
            /\ \A h \in DOMAIN vk.memory :
                  vk'.memory[h] # vk.memory[h] => h \in StagingOf(t)
            /\ t.descriptor_set \in DOMAIN vk'.descriptor_sets
            /\ t.parent_descriptor_pool \in DOMAIN vk'.descriptor_pools]_vars

C34_Witness ==
    /\ phase = "recording"
    /\ ~BuilderFailed
    /\ ncalls = 2
    /\ Len(history) = 2
    /\ history[1].op = "op_local_sync_device"
    /\ Len(history[1].recorded) = 3
    /\ history[2].op = "op_device_sync_local"
    /\ \E h \in StagingOf(TheTask) : vk.memory[h] # <<>>

\* the copy commands recorded into the live command buffers
RecordedCopies ==
    {c \in UNION {{vk.command_buffers[cb].cmds[i] :
                      i \in 1..Len(vk.command_buffers[cb].cmds)} :
                   cb \in DOMAIN vk.command_buffers} : c.cmd = "copy_buffer"}

\* C35: every transfer stays within the buffers allocated at new_task time: no
\* host copy writes past the end of a staging buffer or reads past the end of a
\* readback buffer, and no recorded copy is larger than its source or its
\* destination buffer, also when the data of a tensor was changed through
\* data_mut after new_task.
C35_TransfersWithinBuffers ==
    /\ ~ \E m \in vk.misuse :
           m[1] \in {"host_write_out_of_bounds", "host_read_out_of_bounds",
                     "copy_out_of_range"}
    /\ \A c \in RecordedCopies : CopyInRange(vk, c)
    /\ \A h \in DOMAIN vk.memory \cap DOMAIN vk.buffers :
          Len(vk.memory[h]) * 4 <= vk.buffers[h].size

\* the buffers an entry of a backing map owns
OwnedBy(backing) ==
    {backing.gpu_buffer.buffer, backing.staging_buffer.buffer}
       \cup (IF IsSome(backing.readback_buffer)
             THEN {Unwrap(backing.readback_buffer).buffer} ELSE {})

\* C36: every buffer allocated during a successful new_task is owned by exactly
\* one entry of the task's backing map, and is therefore freed by the teardown
\* of the task, also when the bindings list names a tensor id more than once.
C36_EveryBufferOwnedByOneEntry ==
    /\ HasTask =>
          \A h \in acquired.buffers :
             Cardinality({id \in DOMAIN TheTask.buffers : h \in OwnedBy(TheTask.buffers[id])})
                = 1
    /\ Len(teardown.runs) > 0 =>
          /\ acquired.buffers \cap DOMAIN vk.buffers = {}
          /\ acquired.allocations \cap vk.allocations = {}

\* C37: an await_task call given a tensor that is bound to the task but has no
\* readback buffer does not abort: the tensor keeps its data, and every other
\* tensor of the list whose backing has a readback buffer is still copied into.
C37_AwaitWithoutReadbackContinues ==
    (last_await.called /\ IsSome(task)) =>
       \A i \in 1..Len(last_await.sync_tensors) :
          LET k == last_await.sync_tensors[i]
              T == last_await.before[k]
          IN (T.id \in DOMAIN Unwrap(task).buffers
                /\ IsNone(Unwrap(task).buffers[T.id].readback_buffer)) =>
                /\ phase # "panicked"
                /\ tensors[k].local_data = T.local_data
                /\ \A j \in 1..Len(last_await.sync_tensors) :
                      LET U == last_await.before[last_await.sync_tensors[j]]
                      IN (U.id \in DOMAIN Unwrap(task).buffers
                            /\ IsSome(Unwrap(task).buffers[U.id].readback_buffer)) =>
                            \E e \in AwaitEvents("copy") : last_await.log[e].id = U.id

\* the positions at which a thread holds the write guard
Holding ==
    {"locked_for_allocate", "allocating", "allocated", "locked_for_free", "freeing", "freed"}

\* thread t is blocked in self.allocator.write()
Waiting(t) ==
    \/ threads[t].pc = "loop" /\ threads[t].i <= Len(Bindings(t))
    \/ threads[t].pc = "drop_loop" /\ threads[t].keys # {}

\* a thread holds the lock exactly between its write() and the end of the scope
\* of the guard: not when it requests the lock, and not after new_task returned
\* (with a builder or with an error) or the teardown ended
LockDiscipline ==
    \A t \in Threads :
       /\ allocator.writer = t <=> threads[t].pc \in Holding
       /\ threads[t].pc = "done" => IsNone(threads[t].task)

\* C38: with the threads running new_task and the teardown of their tasks on one
\* manager, the allocator lock is released on every exit path and never
\* requested by the thread that holds it; under fair scheduling every thread
\* waiting for the lock acquires it, and every new_task call and teardown ends.
C38_LockReleasedAndThreadsTerminate ==
    /\ []LockDiscipline
    /\ \A t \in Threads : Waiting(t) ~> (allocator.writer = t)
    /\ \A t \in Threads : (threads[t].pc # "start") ~> (threads[t].pc = "done")

C38_Witness ==
    /\ threads[1].pc = "done"
    /\ IsSome(threads[1].s)
    /\ Unwrap(threads[1].s).errno = Some("BufferAllocationFailure")
    /\ Len(Unwrap(threads[1].s).allocs) = 3
    /\ threads[2].pc = "done"
    /\ IsNone(threads[2].s)
    /\ allocator.writer = 0

\* the step is an op_local_sync_device call that recorded into the task
UploadStep ==
    /\ Len(history') = Len(history) + 1
    /\ history'[Len(history')].op = "op_local_sync_device"

\* the step is the device running the command buffer of the task
DeviceStep == vk.queue # <<>> /\ vk'.queue = Tail(vk.queue)

\* no host copy went past the end of a mapping and no copy past a buffer
InBounds(d) ==
    ~ \E m \in d.misuse :
         m[1] \in {"host_write_out_of_bounds", "host_read_out_of_bounds", "copy_out_of_range"}

\* the uploads (staging to device-local) recorded into the task's command buffer
RecordedUploads ==
    {c \in {TaskStream[i] : i \in 1..Len(TaskStream)} :
        c.cmd = "copy_buffer" /\ c.a \in StagingOf(TheTask)}

\* the staging buffer h holds data: it was written there, and not past its end
StagingHolds(d, h, data) ==
    /\ d.memory[h] = data
    /\ <<"host_write_out_of_bounds", h>> \notin d.misuse

\* an op_local_sync_device call leaves in the staging buffer of each tensor it
\* names the data the tensor has at the call, whether or not an earlier call
\* recorded a copy from that buffer, and records the copy of that data
StagingWrittenAtRecordTime ==
    UploadStep =>
       \A i \in 1..Len(last_call'.tensors) :
          LET T == last_call'.tensors[i]
          IN T.id \in DOMAIN TheTask.buffers =>
                /\ StagingHolds(vk', TheTask.buffers[T.id].staging_buffer.allocation.id,
                                T.local_data)
                /\ CmdCopyBuffer(TheTask.buffers[T.id].staging_buffer.buffer,
                                 TheTask.buffers[T.id].gpu_buffer.buffer,
                                 4 * Len(T.local_data)) \in RecordedUploads'

\* no other step changes the contents of a staging buffer: not a change of the
\* tensor's host data, not finalize, not the submission
StagingKeptOtherwise ==
    (HasTask /\ HasTask' /\ ~ UploadStep) =>
       \A h \in StagingOf(TheTask) \cap DOMAIN vk'.memory : vk'.memory[h] = vk.memory[h]

\* the device copies what the staging buffer holds when the commands run
DeviceReceivesStaging ==
    (DeviceStep /\ HasTask) =>
       \A c \in RecordedUploads :
          /\ CopyInRange(vk, c)
          /\ ReadMemory(vk'.memory[c.b], c.size \div 4)
                = ReadMemory(vk.memory[c.a], c.size \div 4)

\* C39: what a task uploads for a tensor is the tensor's host data at the
\* op_local_sync_device call: the call copies it into the staging buffer, a
\* later change of the host data leaves the staging buffer as it is, the device
\* copies the staging buffer, and a second call for the tensor overwrites the
\* staging buffer the first recorded copy reads.
C39_UploadTakesDataAtRecordTime ==
    [][StagingWrittenAtRecordTime /\ StagingKeptOtherwise /\ DeviceReceivesStaging]_vars

\* the same for the steps that stay within the buffers: it holds as long as no
\* op_local_sync_device call is given data longer than the staging buffer
UploadTakesDataAtRecordTimeWithinBounds ==
    [][InBounds(vk') =>
          StagingWrittenAtRecordTime /\ StagingKeptOtherwise /\ DeviceReceivesStaging]_vars

\* a tensor changed after its upload was recorded: the device received the data
\* of the call
ChangedAfterRecording ==
    /\ phase = "submitted"
    /\ vk.queue = <<>>
    /\ InBounds(vk)
    /\ Len(history) = 1
    /\ history[1].op = "op_local_sync_device"
    /\ Len(tensors) >= 1
    /\ tensors[1].local_data = <<11>>
    /\ tensors[1].id \in DOMAIN TheTask.buffers
    /\ vk.memory[BackingOf(1).staging_buffer.buffer] = <<1>>
    /\ vk.memory[BackingOf(1).gpu_buffer.buffer] = <<1>>

====
